---------------------------- MODULE Spec2Model ----------------------------
(***************************************************************************)
(* A model of the diffing engine of syncforge: the schema comparator       *)
(* (database/table_browser.go: CompareSchemas and its helpers) and the     *)
(* row-level data comparator (database/data_sync.go: CompareTableData and  *)
(* its helpers).                                                           *)
(*                                                                         *)
(* Text.  A Go string is modelled as a sequence of symbols.  A symbol is a *)
(* TLA+ string: either one character of a data-dependent text (a name, a   *)
(* value) or a fixed fragment of a format string ("ALTER TABLE ").  Go's   *)
(* string concatenation and fmt.Sprintf are sequence concatenation.  The   *)
(* backquote character is written BQ.                                      *)
(*                                                                         *)
(* Maps.  Go visits the keys of a map in an unspecified order, which may   *)
(* change from one range statement to the next.  A function that ranges    *)
(* over a map is therefore modelled by the SET of the values it can        *)
(* return, one per choice of orders, and the action that calls it picks    *)
(* one of them.                                                            *)
(***************************************************************************)
EXTENDS Integers, Sequences, FiniteSets, TLC

---------------------------------------------------------------------------
(* Bounds of the model.                                                    *)

\* Number of table names a snapshot may hold.
MaxTables == 3
\* Number of column names a table may hold.
MaxCols == 3

---------------------------------------------------------------------------
(* Text helpers (Go strings)                                               *)

Min(a, b) == IF a < b THEN a ELSE b

\* The backquote character (U+0060), which quotes MySQL identifiers.
BQ == "<backquote>"

\* The byte value of the characters that occur in compared names and in
\* printed byte slices.
Code == [c \in {"'", "A", "B", "O", "\\", "a", "b", "c", "|"} |->
            CASE c = "'" -> 39 [] c = "A" -> 65 [] c = "B" -> 66 [] c = "O" -> 79
              [] c = "\\" -> 92 [] c = "a" -> 97 [] c = "b" -> 98 [] c = "c" -> 99
              [] c = "|" -> 124]

\* Go's  a < b  on strings: byte-wise lexicographic order.
RECURSIVE StrLess(_, _)
StrLess(a, b) ==
    IF b = <<>> THEN FALSE
    ELSE IF a = <<>> THEN TRUE
    ELSE IF Code[Head(a)] # Code[Head(b)] THEN Code[Head(a)] < Code[Head(b)]
    ELSE StrLess(Tail(a), Tail(b))

\* strings.Join(parts, sep)
RECURSIVE Join(_, _)
Join(parts, sep) ==
    IF parts = <<>> THEN <<>>
    ELSE IF Len(parts) = 1 THEN parts[1]
    ELSE parts[1] \o sep \o Join(Tail(parts), sep)

\* strings.ToUpper, character by character.
LowerLetters ==
    <<"a", "b", "c", "d", "e", "f", "g", "h", "i", "j", "k", "l", "m",
      "n", "o", "p", "q", "r", "s", "t", "u", "v", "w", "x", "y", "z">>
UpperLetters ==
    <<"A", "B", "C", "D", "E", "F", "G", "H", "I", "J", "K", "L", "M",
      "N", "O", "P", "Q", "R", "S", "T", "U", "V", "W", "X", "Y", "Z">>

UpperOf ==
    [c \in {LowerLetters[i] : i \in DOMAIN LowerLetters} |->
        UpperLetters[CHOOSE i \in DOMAIN LowerLetters : LowerLetters[i] = c]]

UpperChar(c) == IF c \in DOMAIN UpperOf THEN UpperOf[c] ELSE c

ToUpper(s) == [i \in DOMAIN s |-> UpperChar(s[i])]

HasSuffix(s, suf) ==
    Len(s) >= Len(suf) /\ SubSeq(s, Len(s) - Len(suf) + 1, Len(s)) = suf

HasPrefix(s, pre) ==
    Len(s) >= Len(pre) /\ SubSeq(s, 1, Len(pre)) = pre

\* All the orders in which a range statement may visit the keys  keys.
Perms(keys) ==
    {p \in [1..Cardinality(keys) -> keys] :
        \A i, j \in 1..Cardinality(keys) : i # j => p[i] # p[j]}

\* The concatenation of  body[k]  for the keys k in the given order: the
\* list a loop builds by appending.
RECURSIVE Collect(_, _)
Collect(visited, body) ==
    IF visited = <<>> THEN <<>>
    ELSE body[Head(visited)] \o Collect(Tail(visited), body)

\* The lists a loop over the keys can build when it may visit them in any
\* order.
RangeOver(keys, body) == {Collect(p, body) : p \in Perms(keys)}

---------------------------------------------------------------------------
(* Data model (table_browser.go: ColumnInfo, IndexInfo, TableInfo,         *)
(* SchemaInfo, DiffResult)                                                 *)

\* A *string: the nil pointer, or a pointer to a text.
NilString == <<>>
PtrTo(s) == <<s>>

ColumnInfo(name, type, nullable, key, default, extra, position) ==
    [Name |-> name, Type |-> type, Nullable |-> nullable, Key |-> key,
     Default |-> default, Extra |-> extra, Position |-> position]

IndexInfo(name, nonUnique, column, seqInIdx) ==
    [Name |-> name, NonUnique |-> nonUnique, Column |-> column, SeqInIdx |-> seqInIdx]

TableInfo(name, createSQL, columns, indexes) ==
    [Name |-> name, CreateSQL |-> createSQL, Columns |-> columns, Indexes |-> indexes]

SchemaInfo(database, tables) == [Database |-> database, Tables |-> tables]

DiffResult(type, tableName, detail, sql) ==
    [Type |-> type, TableName |-> tableName, Detail |-> detail, SQL |-> sql]


---------------------------------------------------------------------------
(* Schema Diff Engine (table_browser.go)                                   *)

Digits == {"0", "1", "2", "3", "4", "5", "6", "7", "8", "9"}

isNumericDefault(val) ==
    IF val = <<>> THEN FALSE
    ELSE \A i \in DOMAIN val :
            \/ (i = 1 /\ val[i] = "-")
            \/ val[i] = "."
            \/ val[i] \in Digits

specialDefaults ==
    << <<"N", "U", "L", "L">>,
       <<"C", "U", "R", "R", "E", "N", "T", "_", "T", "I", "M", "E", "S", "T", "A", "M", "P">>,
       <<"C", "U", "R", "R", "E", "N", "T", "_", "D", "A", "T", "E">>,
       <<"C", "U", "R", "R", "E", "N", "T", "_", "T", "I", "M", "E">>,
       <<"N", "O", "W", "(", ")">>,
       <<"T", "R", "U", "E">>,
       <<"F", "A", "L", "S", "E">> >>

\* isSpecialDefault that compares the text as it is written.
isSpecialDefaultExact(val) ==
    LET upper == val
    IN  \/ \E i \in DOMAIN specialDefaults : upper = specialDefaults[i]
        \/ HasSuffix(upper, <<"(", ")">>)
        \/ HasPrefix(upper, <<"(">>)

isSpecialDefault(val) ==
    LET upper == ToUpper(val)
    IN  \/ \E i \in DOMAIN specialDefaults : upper = specialDefaults[i]
        \/ HasSuffix(upper, <<"(", ")">>)
        \/ HasPrefix(upper, <<"(">>)

buildColumnDef(col) ==
    LET def0 == col.Type
        def1 == IF col.Nullable = <<"NO">> THEN def0 \o <<" NOT NULL">> ELSE def0
        def2 == IF col.Default # NilString
                THEN LET defaultVal == col.Default[1]
                     IN  IF isNumericDefault(defaultVal) \/ isSpecialDefault(defaultVal)
                         THEN def1 \o <<" DEFAULT ">> \o defaultVal
                         ELSE def1 \o <<" DEFAULT '">> \o defaultVal \o <<"'">>
                ELSE def1
    IN  IF col.Extra # <<>> THEN def2 \o <<" ">> \o col.Extra ELSE def2

\* defaultsEqual without its first test: two absent defaults differ.
defaultsEqualNoNil(a, b) ==
    IF a = NilString \/ b = NilString THEN FALSE
    ELSE a[1] = b[1]

defaultsEqual(a, b) ==
    IF a = NilString /\ b = NilString THEN TRUE
    ELSE IF a = NilString \/ b = NilString THEN FALSE
    ELSE a[1] = b[1]

\* columnsEqual that compares the key-role tag as well.
columnsEqualWithKey(a, b) ==
    /\ a.Type = b.Type
    /\ a.Nullable = b.Nullable
    /\ a.Extra = b.Extra
    /\ a.Key = b.Key
    /\ defaultsEqual(a.Default, b.Default)

columnsEqual(a, b) ==
    /\ a.Type = b.Type
    /\ a.Nullable = b.Nullable
    /\ a.Extra = b.Extra
    /\ defaultsEqual(a.Default, b.Default)

\* The loop  for _, col := range columns { m[col.Name] = col } : a later
\* column of the same name replaces an earlier one.
ColMap(columns) ==
    [n \in {columns[i].Name : i \in DOMAIN columns} |->
        LET last == CHOOSE i \in DOMAIN columns :
                        /\ columns[i].Name = n
                        /\ \A j \in DOMAIN columns : columns[j].Name = n => j <= i
        IN  columns[last]]

\* name -> the quoted columns of the entries of that name, in list order.
buildIndexMap(indexes) ==
    [n \in {indexes[i].Name : i \in DOMAIN indexes} |->
        LET RECURSIVE Cols(_)
            Cols(i) ==
                IF i > Len(indexes) THEN <<>>
                ELSE IF indexes[i].Name = n
                     THEN << <<BQ>> \o indexes[i].Column \o <<BQ>> >> \o Cols(i + 1)
                     ELSE Cols(i + 1)
        IN  Cols(1)]

stringSlicesEqual(a, b) ==
    IF Len(a) # Len(b) THEN FALSE
    ELSE \A i \in DOMAIN a : a[i] = b[i]

PRIMARY == <<"PRIMARY">>

\* afterClauseOf that takes the second column for the first as well.
afterClauseOfSecond(source, sourceCol) ==
    IF sourceCol.Position > 2
    THEN LET hits == {i \in DOMAIN source.Columns :
                        source.Columns[i].Position = sourceCol.Position - 1}
         IN  IF hits = {} THEN <<>>
             ELSE LET first == CHOOSE i \in hits : \A j \in hits : i <= j
                  IN  <<" AFTER ", BQ>> \o source.Columns[first].Name \o <<BQ>>
    ELSE <<" FIRST">>

\* The clause that places an added column (lines 909-919).
afterClauseOf(source, sourceCol) ==
    IF sourceCol.Position > 1
    THEN LET hits == {i \in DOMAIN source.Columns :
                        source.Columns[i].Position = sourceCol.Position - 1}
         IN  IF hits = {} THEN <<>>
             ELSE LET first == CHOOSE i \in hits : \A j \in hits : i <= j
                  IN  <<" AFTER ", BQ>> \o source.Columns[first].Name \o <<BQ>>
    ELSE <<" FIRST">>

\* The lists a loop over the keys can build when it may visit them in any
\* order and each key contributes any one list of  bodies(k).
RECURSIVE CollectSets(_, _)
CollectSets(visited, bodies) ==
    IF visited = <<>> THEN {<<>>}
    ELSE {h \o t : h \in bodies[Head(visited)], t \in CollectSets(Tail(visited), bodies)}

RangeOverSets(keys, bodies) == UNION {CollectSets(p, bodies) : p \in Perms(keys)}

ALTER(tableName) == <<"ALTER TABLE ", BQ>> \o tableName \o <<BQ>>

\* addedColumns without the test of line 907: every column of the source
\* that is not the target's column is reported as added.
addedColumnsAlways(tableName, source, sourceColMap, targetColMap) ==
    LET entry(colName) ==
            IF \/ colName \notin DOMAIN targetColMap
               \/ ~columnsEqual(sourceColMap[colName], targetColMap[colName])
            THEN << DiffResult("modified", tableName,
                        <<"Add column: ">> \o colName,
                        ALTER(tableName) \o <<" ADD COLUMN ", BQ>> \o colName \o <<BQ, " ">>
                            \o buildColumnDef(sourceColMap[colName])
                            \o afterClauseOf(source, sourceColMap[colName])
                            \o <<";">>) >>
            ELSE <<>>
    IN  RangeOver(DOMAIN sourceColMap, [key \in DOMAIN sourceColMap |-> entry(key)])

\* Lines 906-928: the columns of the source that the target lacks.
addedColumns(tableName, source, sourceColMap, targetColMap) ==
    LET entry(colName) ==
            IF colName \notin DOMAIN targetColMap
            THEN << DiffResult("modified", tableName,
                        <<"Add column: ">> \o colName,
                        ALTER(tableName) \o <<" ADD COLUMN ", BQ>> \o colName \o <<BQ, " ">>
                            \o buildColumnDef(sourceColMap[colName])
                            \o afterClauseOf(source, sourceColMap[colName])
                            \o <<";">>) >>
            ELSE <<>>
    IN  RangeOver(DOMAIN sourceColMap, [key \in DOMAIN sourceColMap |-> entry(key)])

\* Lines 930-940: the columns of the target that the source lacks.
removedColumns(tableName, sourceColMap, targetColMap) ==
    LET entry(colName) ==
            IF colName \notin DOMAIN sourceColMap
            THEN << DiffResult("modified", tableName,
                        <<"Drop column: ">> \o colName,
                        ALTER(tableName) \o <<" DROP COLUMN ", BQ>> \o colName
                            \o <<BQ, ";">>) >>
            ELSE <<>>
    IN  RangeOver(DOMAIN targetColMap, [key \in DOMAIN targetColMap |-> entry(key)])

\* Lines 942-954: the columns of both that are not column-equal.
modifiedColumns(tableName, sourceColMap, targetColMap) ==
    LET entry(colName) ==
            IF colName \in DOMAIN targetColMap
               /\ ~columnsEqual(sourceColMap[colName], targetColMap[colName])
            THEN << DiffResult("modified", tableName,
                        <<"Modify column: ">> \o colName \o <<" (">>
                            \o targetColMap[colName].Type \o <<" -> ">>
                            \o sourceColMap[colName].Type \o <<")">>,
                        ALTER(tableName) \o <<" MODIFY COLUMN ", BQ>> \o colName
                            \o <<BQ, " ">>
                            \o buildColumnDef(sourceColMap[colName])
                            \o <<";">>) >>
            ELSE <<>>
    IN  RangeOver(DOMAIN sourceColMap, [key \in DOMAIN sourceColMap |-> entry(key)])

\* sourceIndexes without the test of line 961.
sourceIndexesWithPrimary(tableName, sourceIdxMap, targetIdxMap) ==
    LET entry(idxName) ==
            IF idxName \notin DOMAIN targetIdxMap
            THEN << DiffResult("modified", tableName,
                        <<"Add index: ">> \o idxName,
                        ALTER(tableName) \o <<" ADD INDEX ", BQ>> \o idxName \o <<BQ, " (">>
                            \o Join(sourceIdxMap[idxName], <<", ">>) \o <<");">>) >>
            ELSE IF ~stringSlicesEqual(sourceIdxMap[idxName], targetIdxMap[idxName])
            THEN << DiffResult("modified", tableName,
                        <<"Recreate index: ">> \o idxName,
                        ALTER(tableName) \o <<" DROP INDEX ", BQ>> \o idxName
                            \o <<BQ, ", ADD INDEX ", BQ>> \o idxName \o <<BQ, " (">>
                            \o Join(sourceIdxMap[idxName], <<", ">>) \o <<");">>) >>
            ELSE <<>>
    IN  RangeOver(DOMAIN sourceIdxMap, [key \in DOMAIN sourceIdxMap |-> entry(key)])

\* Lines 960-979: the indexes of the source that the target lacks or holds
\* with other columns.
sourceIndexes(tableName, sourceIdxMap, targetIdxMap) ==
    LET entry(idxName) ==
            IF idxName = PRIMARY THEN <<>>
            ELSE IF idxName \notin DOMAIN targetIdxMap
            THEN << DiffResult("modified", tableName,
                        <<"Add index: ">> \o idxName,
                        ALTER(tableName) \o <<" ADD INDEX ", BQ>> \o idxName \o <<BQ, " (">>
                            \o Join(sourceIdxMap[idxName], <<", ">>) \o <<");">>) >>
            ELSE IF ~stringSlicesEqual(sourceIdxMap[idxName], targetIdxMap[idxName])
            THEN << DiffResult("modified", tableName,
                        <<"Recreate index: ">> \o idxName,
                        ALTER(tableName) \o <<" DROP INDEX ", BQ>> \o idxName
                            \o <<BQ, ", ADD INDEX ", BQ>> \o idxName \o <<BQ, " (">>
                            \o Join(sourceIdxMap[idxName], <<", ">>) \o <<");">>) >>
            ELSE <<>>
    IN  RangeOver(DOMAIN sourceIdxMap, [key \in DOMAIN sourceIdxMap |-> entry(key)])

\* Lines 981-993: the indexes of the target that the source lacks.
targetIndexes(tableName, sourceIdxMap, targetIdxMap) ==
    LET entry(idxName) ==
            IF idxName = PRIMARY THEN <<>>
            ELSE IF idxName \notin DOMAIN sourceIdxMap
            THEN << DiffResult("modified", tableName,
                        <<"Drop index: ">> \o idxName,
                        ALTER(tableName) \o <<" DROP INDEX ", BQ>> \o idxName
                            \o <<BQ, ";">>) >>
            ELSE <<>>
    IN  RangeOver(DOMAIN targetIdxMap, [key \in DOMAIN targetIdxMap |-> entry(key)])

\* The lists compareTableStructure can return: the five loops append in
\* turn, each visiting its map in any order.
compareTableStructure(tableName, source, target) ==
    LET sourceColMap == ColMap(source.Columns)
        targetColMap == ColMap(target.Columns)
        sourceIdxMap == buildIndexMap(source.Indexes)
        targetIdxMap == buildIndexMap(target.Indexes)
    IN  {a \o r \o m \o si \o ti :
            a \in addedColumns(tableName, source, sourceColMap, targetColMap),
            r \in removedColumns(tableName, sourceColMap, targetColMap),
            m \in modifiedColumns(tableName, sourceColMap, targetColMap),
            si \in sourceIndexes(tableName, sourceIdxMap, targetIdxMap),
            ti \in targetIndexes(tableName, sourceIdxMap, targetIdxMap)}

\* The comparison function given to sort.Slice (lines 882-888).
order == [t \in {"added", "modified", "removed"} |->
            CASE t = "added" -> 0 [] t = "modified" -> 1 [] t = "removed" -> 2]

\* resultLess without the comparison of the table names.
resultLessKindOnly(x, y) == order[x.Type] < order[y.Type]

resultLess(x, y) ==
    IF x.Type # y.Type THEN order[x.Type] < order[y.Type]
    ELSE StrLess(x.TableName, y.TableName)

\* sort.Slice on a slice of at most 12 elements is an insertion sort:
\* each element moves left while it is less than its left neighbour.
MaxInsertion == 12

RECURSIVE insertLeft(_, _)
insertLeft(sorted, x) ==
    IF sorted = <<>> THEN <<x>>
    ELSE IF resultLess(x, sorted[Len(sorted)])
         THEN Append(insertLeft(SubSeq(sorted, 1, Len(sorted) - 1), x), sorted[Len(sorted)])
         ELSE Append(sorted, x)

RECURSIVE sortSlice(_)
sortSlice(results) ==
    IF results = <<>> THEN <<>>
    ELSE insertLeft(sortSlice(SubSeq(results, 1, Len(results) - 1)), results[Len(results)])

\* addedTables that compares the table names without regard to case.
addedTablesAnyCase(source, target) ==
    LET entry(tableName) ==
            IF ToUpper(tableName) \notin {ToUpper(n) : n \in DOMAIN target.Tables}
            THEN << DiffResult("added", tableName,
                        <<"Table exists in source but not in target">>,
                        source.Tables[tableName].CreateSQL \o <<";">>) >>
            ELSE <<>>
    IN  RangeOver(DOMAIN source.Tables, [key \in DOMAIN source.Tables |-> entry(key)])

\* Lines 849-859: the tables of the source that the target lacks.
addedTables(source, target) ==
    LET entry(tableName) ==
            IF tableName \notin DOMAIN target.Tables
            THEN << DiffResult("added", tableName,
                        <<"Table exists in source but not in target">>,
                        source.Tables[tableName].CreateSQL \o <<";">>) >>
            ELSE <<>>
    IN  RangeOver(DOMAIN source.Tables, [key \in DOMAIN source.Tables |-> entry(key)])

\* removedTables with the test of line 862 inverted.
removedTablesShared(source, target) ==
    LET entry(tableName) ==
            IF tableName \in DOMAIN source.Tables
            THEN << DiffResult("removed", tableName,
                        <<"Table exists in target but not in source">>,
                        <<"DROP TABLE ", BQ>> \o tableName \o <<BQ, ";">>) >>
            ELSE <<>>
    IN  RangeOver(DOMAIN target.Tables, [key \in DOMAIN target.Tables |-> entry(key)])

\* Lines 861-871: the tables of the target that the source lacks.
removedTables(source, target) ==
    LET entry(tableName) ==
            IF tableName \notin DOMAIN source.Tables
            THEN << DiffResult("removed", tableName,
                        <<"Table exists in target but not in source">>,
                        <<"DROP TABLE ", BQ>> \o tableName \o <<BQ, ";">>) >>
            ELSE <<>>
    IN  RangeOver(DOMAIN target.Tables, [key \in DOMAIN target.Tables |-> entry(key)])

\* Lines 873-879: the differences of the tables both hold.
existingTables(source, target) ==
    LET diffs(tableName) ==
            IF tableName \in DOMAIN target.Tables
            THEN compareTableStructure(tableName, source.Tables[tableName],
                                       target.Tables[tableName])
            ELSE {<<>>}
    IN  RangeOverSets(DOMAIN source.Tables, [key \in DOMAIN source.Tables |-> diffs(key)])

\* The lists CompareSchemas can return.
CompareSchemas(source, target) ==
    {sortSlice(a \o r \o e) :
        a \in addedTables(source, target),
        r \in removedTables(source, target),
        e \in existingTables(source, target)}

\* The dialect tags GetSchema and buildDSN know.
KnownTypes == {"", "mysql", "postgresql", "sqlite", "sqlserver"}

GetSourceSchema == "GetSchema(source)"
GetTargetSchema == "GetSchema(target)"
ErrUnsupported == "unsupported database type"

\* App.CompareSchemas that compares what it has when the target cannot be
\* read.
AppCompareSchemasPartial(sourceType, targetType, source, target, failing) ==
    LET fail(list, err) == {[results |-> list, err |-> err]}
        partial == CompareSchemas(source, SchemaInfo(<<>>, [n \in {} |-> <<>>]))
    IN  IF sourceType \notin KnownTypes THEN fail(<<>>, ErrUnsupported)
        ELSE IF failing = GetSourceSchema THEN fail(<<>>, "source schema failed")
        ELSE IF targetType \notin KnownTypes
        THEN {[results |-> r, err |-> ErrUnsupported] : r \in partial}
        ELSE IF failing = GetTargetSchema
        THEN {[results |-> r, err |-> "target schema failed"] : r \in partial}
        ELSE {[results |-> r, err |-> ""] : r \in CompareSchemas(source, target)}

\* App.CompareSchemas (app.go) on two databases of these dialect tags whose
\* schemas are  source  and  target ;  failing  is the GetSchema that fails,
\* if any.  The set of the pairs (results, err) it can return.
AppCompareSchemas(sourceType, targetType, source, target, failing) ==
    LET fail(list, err) == {[results |-> list, err |-> err]}
    IN  IF sourceType \notin KnownTypes THEN fail(<<>>, ErrUnsupported)
        ELSE IF failing = GetSourceSchema THEN fail(<<>>, "source schema failed")
        ELSE IF targetType \notin KnownTypes THEN fail(<<>>, ErrUnsupported)
        ELSE IF failing = GetTargetSchema THEN fail(<<>>, "target schema failed")
        ELSE {[results |-> r, err |-> ""] : r \in CompareSchemas(source, target)}

---------------------------------------------------------------------------
(* The database behind the Dialect Adapter (MySQL).  The engine reads a    *)
(* snapshot through getMySQLTableInfo and the statements it generates are  *)
(* run by the database, after which the adapter reads the snapshot again.  *)
(* This section says what the database does with a statement text.         *)

NULLText == <<"N", "U", "L", "L">>

Types == {<<"INT">>, <<"TEXT">>}
Nullables == {<<"YES">>, <<"NO">>}
DefaultTexts == {<<"0">>, <<"a">>, NULLText, <<>>}
Defaults == {NilString} \cup {PtrTo(v) : v \in DefaultTexts}
Extras == {<<>>, <<"auto_increment">>}

TableNamePool == << <<"a">>, <<"A">>, <<"a", "b">>, <<"c">> >>
TableNames == {TableNamePool[i] : i \in 1..Min(MaxTables, Len(TableNamePool))}

ColNamePool == << <<"x">>, <<"y">>, <<"z">>, <<"w">> >>
ColNames == {ColNamePool[i] : i \in 1..Min(MaxCols, Len(ColNamePool))}

IndexNames == {PRIMARY, <<"i">>, <<"j">>}

\* The attributes a column definition states.
ColumnAttrs == [Type : Types, Nullable : Nullables, Default : Defaults, Extra : Extras]

\* Non-empty lists of distinct column names.
ColLists ==
    UNION {{l \in [1..n -> ColNames] : \A i, j \in 1..n : i # j => l[i] # l[j]} :
            n \in 1..Cardinality(ColNames)}

\* The texts of a DEFAULT clause that mean the default  d : no clause or
\* the bare keyword NULL (in any case) for no default; a quoted literal or
\* a bare literal other than the keyword NULL for a default text.
DefaultClauses(d) ==
    IF d = NilString
    THEN {<<>>} \cup {<<" DEFAULT ">> \o v : v \in {w \in DefaultTexts : ToUpper(w) = NULLText}}
    ELSE {<<" DEFAULT '">> \o d[1] \o <<"'">>}
         \cup (IF d[1] # <<>> /\ ToUpper(d[1]) # NULLText
               THEN {<<" DEFAULT ">> \o d[1]} ELSE {})

\* The column definition texts that mean the attributes  a.
ColumnDefTexts(a) ==
    {a.Type \o (IF a.Nullable = <<"NO">> THEN <<" NOT NULL">> ELSE <<>>)
        \o dc \o (IF a.Extra # <<>> THEN <<" ">> \o a.Extra ELSE <<>>) :
        dc \in DefaultClauses(a.Default)}

\* The attributes a column definition text means (none: a syntax error).
ParseColumnDef(text) == {a \in ColumnAttrs : text \in ColumnDefTexts(a)}

AttrsOf(col) ==
    [Type |-> col.Type, Nullable |-> col.Nullable, Default |-> col.Default,
     Extra |-> col.Extra]

\* COLUMN_KEY of INFORMATION_SCHEMA.COLUMNS.
KeyOf(colName, indexes) ==
    IF \E i \in DOMAIN indexes : indexes[i].Column = colName /\ indexes[i].Name = PRIMARY
    THEN <<"PRI">>
    ELSE IF \E i \in DOMAIN indexes : indexes[i].Column = colName /\ indexes[i].NonUnique = 0
    THEN <<"UNI">>
    ELSE IF \E i \in DOMAIN indexes : indexes[i].Column = colName
    THEN <<"MUL">>
    ELSE <<>>

\* SHOW CREATE TABLE: every column with its attributes, then every index.
ShowCreateTable(name, names, attrs, indexes) ==
    LET colText(i) ==
            <<BQ>> \o names[i] \o <<BQ, " ">> \o attrs[i].Type
                \o (IF attrs[i].Nullable = <<"NO">> THEN <<" NOT NULL">> ELSE <<>>)
                \o (IF attrs[i].Default # NilString
                    THEN <<" DEFAULT '">> \o attrs[i].Default[1] \o <<"'">> ELSE <<>>)
                \o (IF attrs[i].Extra # <<>> THEN <<" ">> \o attrs[i].Extra ELSE <<>>)
        idxText(i) ==
            (IF indexes[i].NonUnique = 0 THEN <<"UNIQUE ">> ELSE <<>>)
                \o <<"KEY ", BQ>> \o indexes[i].Name \o <<BQ, " ", BQ>>
                \o indexes[i].Column \o <<BQ>>
    IN  <<"CREATE TABLE ", BQ>> \o name \o <<BQ, " (">>
            \o Join([i \in DOMAIN names |-> colText(i)]
                    \o [i \in DOMAIN indexes |-> idxText(i)], <<", ">>)
            \o <<")">>

\* The snapshot getMySQLTableInfo reads of a table with these columns (in
\* ordinal order) and these index entries.
TableOf(name, names, attrs, indexes) ==
    TableInfo(name,
              ShowCreateTable(name, names, attrs, indexes),
              [i \in DOMAIN names |->
                  ColumnInfo(names[i], attrs[i].Type, attrs[i].Nullable,
                             KeyOf(names[i], indexes), attrs[i].Default,
                             attrs[i].Extra, i)],
              indexes)

\* The index entries of an index on the listed columns.
IndexEntries(idxName, nonUnique, cols) ==
    [i \in DOMAIN cols |-> IndexInfo(idxName, nonUnique, cols[i], i)]

---------------------------------------------------------------------------
(* The snapshots the model draws its inputs from.  All are valid: column   *)
(* names are unique, ordinal positions run from 1, the create text is the  *)
(* one of the table, every index column is a column of the table.          *)

BaseAttrs ==
    [Type |-> <<"INT">>, Nullable |-> <<"NO">>, Default |-> NilString, Extra |-> <<>>]

\* Each family varies one attribute of a column definition.
AttrFamilies ==
    { {BaseAttrs, [BaseAttrs EXCEPT !.Type = <<"TEXT">>]},
      {BaseAttrs, [BaseAttrs EXCEPT !.Nullable = <<"YES">>]},
      {BaseAttrs, [BaseAttrs EXCEPT !.Extra = <<"auto_increment">>]},
      {BaseAttrs, [BaseAttrs EXCEPT !.Default = PtrTo(<<"0">>)]},
      {BaseAttrs, [BaseAttrs EXCEPT !.Default = PtrTo(<<>>)]},
      {BaseAttrs, [BaseAttrs EXCEPT !.Default = PtrTo(NULLText)]},
      {[BaseAttrs EXCEPT !.Default = PtrTo(<<"0">>)],
       [BaseAttrs EXCEPT !.Default = PtrTo(<<"a">>)]} }

\* One table of one or two of the first three columns, attributes of one
\* family, no index.
ColumnTables(family) ==
    LET first == {ColNamePool[i] : i \in 1..Min(3, MaxCols)}
    IN  UNION {{TableOf(TableNamePool[1], names, attrs, <<>>) :
                    attrs \in [DOMAIN names -> family]} :
                names \in {l \in ColLists : Len(l) <= 2 /\ \A i \in DOMAIN l : l[i] \in first}}

\* One table, any plain columns in any order, no index.
PlainTables ==
    {TableOf(TableNamePool[1], names, [i \in DOMAIN names |-> BaseAttrs], <<>>) :
        names \in ColLists}

\* One table with two plain columns and any of these indexes.
IndexTables ==
    LET x == ColNamePool[1]
        y == ColNamePool[2]
        lists == {<<x>>, <<y>>, <<x, y>>, <<y, x>>}
    IN  {TableOf(TableNamePool[1], <<x, y>>, <<BaseAttrs, BaseAttrs>>, p \o i \o j) :
            p \in {<<>>, IndexEntries(PRIMARY, 0, <<x>>)},
            i \in {<<>>} \cup {IndexEntries(<<"i">>, nu, l) : nu \in {0, 1}, l \in lists},
            j \in {<<>>, IndexEntries(<<"j">>, 1, <<y>>)}}

\* A table of one column, of one of two types.
SimpleTables(name) ==
    {TableOf(name, <<ColNamePool[1]>>, <<a>>, <<>>) :
        a \in {BaseAttrs, [BaseAttrs EXCEPT !.Type = <<"TEXT">>]}}

\* Any subset of the table names, each a simple table.
TableSnapshots ==
    UNION {{SchemaInfo(<<"db">>, tables) :
                tables \in {f \in [names -> UNION {SimpleTables(n) : n \in names}] :
                                \A n \in names : f[n].Name = n}} :
            names \in SUBSET TableNames}

OneTable(t) == SchemaInfo(<<"db">>, [n \in {t.Name} |-> t])

AllTables ==
    UNION {ColumnTables(f) : f \in AttrFamilies}
        \cup PlainTables
        \cup IndexTables
        \cup UNION {SimpleTables(n) : n \in TableNames}

\* The pairs (source, target) a comparison may be given.
SnapshotPairs ==
    (TableSnapshots \X TableSnapshots)
        \cup UNION {{<<OneTable(s), OneTable(t)>> :
                        s \in ColumnTables(f), t \in ColumnTables(f)} : f \in AttrFamilies}
        \cup {<<OneTable(s), OneTable(t)>> : s \in PlainTables, t \in PlainTables}
        \cup {<<OneTable(s), OneTable(t)>> : s \in IndexTables, t \in IndexTables}

---------------------------------------------------------------------------
(* What the database does with a statement.  A statement it cannot run (a  *)
(* syntax error, a missing or duplicate table, column or index) changes    *)
(* nothing.                                                                *)

DropPrefix(s, pre) == SubSeq(s, Len(pre) + 1, Len(s))
DropSuffix(s, suf) == SubSeq(s, 1, Len(s) - Len(suf))
RemoveAt(seq, i) == SubSeq(seq, 1, i - 1) \o SubSeq(seq, i + 1, Len(seq))
InsertAfter(seq, i, x) == SubSeq(seq, 1, i) \o <<x>> \o SubSeq(seq, i + 1, Len(seq))

RECURSIVE WithoutIndex(_, _)
WithoutIndex(indexes, idxName) ==
    IF indexes = <<>> THEN <<>>
    ELSE IF Head(indexes).Name = idxName THEN WithoutIndex(Tail(indexes), idxName)
    ELSE <<Head(indexes)>> \o WithoutIndex(Tail(indexes), idxName)

\* Dropping a column takes it out of every index, the rest closing ranks.
RECURSIVE WithoutIndexColumn(_, _)
WithoutIndexColumn(indexes, colName) ==
    IF indexes = <<>> THEN <<>>
    ELSE LET rest == WithoutIndexColumn(SubSeq(indexes, 1, Len(indexes) - 1), colName)
             e == indexes[Len(indexes)]
         IN  IF e.Column = colName THEN rest
             ELSE Append(rest, [e EXCEPT !.SeqInIdx =
                            1 + Cardinality({k \in DOMAIN rest : rest[k].Name = e.Name})])

\* The outcome of a statement: whether it ran, and what there is now.
Done(x) == [ok |-> TRUE, now |-> x]
Failed(x) == [ok |-> FALSE, now |-> x]

\* ALTER TABLE on the table  tbl , given the text after the table name.
AlterTable(tbl, clause) ==
    LET names == [i \in DOMAIN tbl.Columns |-> tbl.Columns[i].Name]
        attrs == [i \in DOMAIN tbl.Columns |-> AttrsOf(tbl.Columns[i])]
        idx == tbl.Indexes
        colNames == {names[i] : i \in DOMAIN names}
        idxNames == {idx[i].Name : i \in DOMAIN idx}
        posOf(c) == CHOOSE i \in DOMAIN names : names[i] = c
        places == {<< <<>>, Len(names) >>, << <<" FIRST">>, 0 >>}
                    \cup {<< <<" AFTER ", BQ>> \o names[i] \o <<BQ>>, i >> : i \in DOMAIN names}
        addHead(c) == <<" ADD COLUMN ", BQ>> \o c \o <<BQ, " ">>
        addBody(c) == DropSuffix(DropPrefix(clause, addHead(c)), <<";">>)
        adds == {r \in (ColNames \ colNames) \X places :
                    /\ HasPrefix(clause, addHead(r[1]))
                    /\ HasSuffix(clause, <<";">>)
                    /\ HasSuffix(addBody(r[1]), r[2][1])
                    /\ ParseColumnDef(DropSuffix(addBody(r[1]), r[2][1])) # {}}
        modHead(c) == <<" MODIFY COLUMN ", BQ>> \o c \o <<BQ, " ">>
        modBody(c) == DropSuffix(DropPrefix(clause, modHead(c)), <<";">>)
        mods == {c \in colNames :
                    /\ HasPrefix(clause, modHead(c))
                    /\ HasSuffix(clause, <<";">>)
                    /\ ParseColumnDef(modBody(c)) # {}}
        drops == {c \in colNames :
                    /\ clause = <<" DROP COLUMN ", BQ>> \o c \o <<BQ, ";">>
                    /\ Len(names) > 1}
        colsText(l) == Join([k \in DOMAIN l |-> <<BQ>> \o l[k] \o <<BQ>>], <<", ">>)
        usable == {l \in ColLists : \A k \in DOMAIN l : l[k] \in colNames}
        addIdx == {r \in (IndexNames \ idxNames) \X usable :
                    clause = <<" ADD INDEX ", BQ>> \o r[1] \o <<BQ, " (">>
                                \o colsText(r[2]) \o <<");">>}
        reIdx == {r \in idxNames \X usable :
                    clause = <<" DROP INDEX ", BQ>> \o r[1] \o <<BQ, ", ADD INDEX ", BQ>>
                                \o r[1] \o <<BQ, " (">> \o colsText(r[2]) \o <<");">>}
        dropIdx == {n \in idxNames :
                    clause = <<" DROP INDEX ", BQ>> \o n \o <<BQ, ";">>}
    IN  IF adds # {}
        THEN LET r == CHOOSE r \in adds : TRUE
                 a == CHOOSE a \in ParseColumnDef(DropSuffix(addBody(r[1]), r[2][1])) : TRUE
             IN  Done(TableOf(tbl.Name, InsertAfter(names, r[2][2], r[1]),
                              InsertAfter(attrs, r[2][2], a), idx))
        ELSE IF mods # {}
        THEN LET c == CHOOSE c \in mods : TRUE
                 a == CHOOSE a \in ParseColumnDef(modBody(c)) : TRUE
             IN  Done(TableOf(tbl.Name, names, [attrs EXCEPT ![posOf(c)] = a], idx))
        ELSE IF drops # {}
        THEN LET c == CHOOSE c \in drops : TRUE
             IN  Done(TableOf(tbl.Name, RemoveAt(names, posOf(c)), RemoveAt(attrs, posOf(c)),
                              WithoutIndexColumn(idx, c)))
        ELSE IF addIdx # {}
        THEN LET r == CHOOSE r \in addIdx : TRUE
             IN  Done(TableOf(tbl.Name, names, attrs, idx \o IndexEntries(r[1], 1, r[2])))
        ELSE IF reIdx # {}
        THEN LET r == CHOOSE r \in reIdx : TRUE
             IN  Done(TableOf(tbl.Name, names, attrs,
                              WithoutIndex(idx, r[1]) \o IndexEntries(r[1], 1, r[2])))
        ELSE IF dropIdx # {}
        THEN LET n == CHOOSE n \in dropIdx : TRUE
             IN  Done(TableOf(tbl.Name, names, attrs, WithoutIndex(idx, n)))
        ELSE Failed(tbl)

\* The database runs one statement on the schema.
ApplyStatement(schema, sql) ==
    LET tables == schema.Tables
        creates == {t \in AllTables : t.Name \notin DOMAIN tables /\ sql = t.CreateSQL \o <<";">>}
        dropped == {n \in DOMAIN tables : sql = <<"DROP TABLE ", BQ>> \o n \o <<BQ, ";">>}
        altHead(n) == <<"ALTER TABLE ", BQ>> \o n \o <<BQ>>
        altered == {n \in DOMAIN tables : HasPrefix(sql, altHead(n))}
    IN  IF creates # {}
        THEN LET t == CHOOSE t \in creates : TRUE
             IN  Done([schema EXCEPT !.Tables =
                        [n \in DOMAIN tables \cup {t.Name} |->
                            IF n = t.Name THEN t ELSE tables[n]]])
        ELSE IF dropped # {}
        THEN LET d == CHOOSE d \in dropped : TRUE
             IN  Done([schema EXCEPT !.Tables = [n \in DOMAIN tables \ {d} |-> tables[n]]])
        ELSE IF altered # {}
        THEN LET n == CHOOSE n \in altered : TRUE
                 r == AlterTable(tables[n], DropPrefix(sql, altHead(n)))
             IN  [ok |-> r.ok, now |-> [schema EXCEPT !.Tables[n] = r.now]]
        ELSE Failed(schema)

\* db.Exec of the statements of the entries, in list order, as one batch
\* (multiStatements=true): the database runs them one after the other and
\* stops at the first it cannot run, keeping what the earlier ones did.
RECURSIVE ApplyAll(_, _)
ApplyAll(schema, entries) ==
    IF entries = <<>> THEN Done(schema)
    ELSE LET r == ApplyStatement(schema, Head(entries).SQL)
         IN  IF r.ok THEN ApplyAll(r.now, Tail(entries)) ELSE r

---------------------------------------------------------------------------
(* Data Diff Engine (data_sync.go)                                         *)

\* Number of rows a table may hold.
MaxRows == 2
\* The integer key values of the rows of a table keyed by one column.
KeyValues == {1, 2, 3}

MySQL == "mysql"
PostgreSQL == "postgresql"
SQLite == "sqlite"
SQLServer == "sqlserver"

\* A value of Go's interface{}: nil, or a value of the dynamic type  kind .
\* database/sql scans a cell into nil, a byte slice, a string or an int64.
Nil == [kind |-> "nil", str |-> <<>>, num |-> 0]
Bytes(s) == [kind |-> "[]byte", str |-> s, num |-> 0]
String(s) == [kind |-> "string", str |-> s, num |-> 0]
Int64(n) == [kind |-> "int64", str |-> <<>>, num |-> n]
\* An integer of another type.
Integer(kind, n) == [kind |-> kind, str |-> <<>>, num |-> n]
\* A float that is a whole number of halves:  num  is twice the value.
Float(kind, halves) == [kind |-> kind, str |-> <<>>, num |-> halves]
\* A bool:  num  is 1 for true and 0 for false.
Bool(b) == [kind |-> "bool", str |-> <<>>, num |-> IF b THEN 1 ELSE 0]

SignedKinds == {"int", "int8", "int16", "int32", "int64"}
UnsignedKinds == {"uint", "uint8", "uint16", "uint32", "uint64"}
FloatKinds == {"float32", "float64"}

DigitOf == <<"0", "1", "2", "3", "4", "5", "6", "7", "8", "9">>

\* The decimal text of an integer.
RECURSIVE Decimal(_)
Decimal(n) ==
    IF n < 0 THEN <<"-">> \o Decimal(0 - n)
    ELSE IF n < 10 THEN <<DigitOf[n + 1]>>
    ELSE Decimal(n \div 10) \o <<DigitOf[(n % 10) + 1]>>

\* %v of a float that is a whole number of halves.
HalvesText(h) ==
    IF h < 0 THEN <<"-">> \o Decimal((0 - h) \div 2) \o (IF h % 2 = 0 THEN <<>> ELSE <<".", "5">>)
    ELSE Decimal(h \div 2) \o (IF h % 2 = 0 THEN <<>> ELSE <<".", "5">>)

\* fmt.Sprintf("%v", val)
Sprint(val) ==
    CASE val.kind = "nil" -> <<"<", "n", "i", "l", ">">>
      [] val.kind \in SignedKinds \cup UnsignedKinds -> Decimal(val.num)
      [] val.kind \in FloatKinds -> HalvesText(val.num)
      [] val.kind = "bool" ->
            IF val.num = 1 THEN <<"t", "r", "u", "e">> ELSE <<"f", "a", "l", "s", "e">>
      [] val.kind = "[]byte" ->
            <<"[">> \o Join([i \in DOMAIN val.str |-> Decimal(Code[val.str[i]])], <<" ">>)
                \o <<"]">>
      [] OTHER -> val.str

\* strings.ReplaceAll(s, "'", "''")
RECURSIVE ReplaceAllQuotes(_)
ReplaceAllQuotes(s) ==
    IF s = <<>> THEN <<>>
    ELSE (IF Head(s) = "'" THEN <<"'", "'">> ELSE <<Head(s)>>) \o ReplaceAllQuotes(Tail(s))

\* escapeValue that writes the text as it is between the quotes.
escapeValueNoDoubling(val) ==
    IF val.kind = "nil" THEN <<"N", "U", "L", "L">>
    ELSE IF val.kind \in {"int", "int32", "int64", "float32", "float64"} THEN Sprint(val)
    ELSE IF val.kind = "bool" THEN (IF val.num = 1 THEN <<"1">> ELSE <<"0">>)
    ELSE <<"'">> \o Sprint(val) \o <<"'">>

escapeValue(val) ==
    IF val.kind = "nil" THEN <<"N", "U", "L", "L">>
    ELSE IF val.kind \in {"int", "int32", "int64", "float32", "float64"} THEN Sprint(val)
    ELSE IF val.kind = "bool" THEN (IF val.num = 1 THEN <<"1">> ELSE <<"0">>)
    ELSE <<"'">> \o ReplaceAllQuotes(Sprint(val)) \o <<"'">>

quoteIdentifier(dbType, name) ==
    CASE dbType \in {MySQL, ""} -> <<BQ>> \o name \o <<BQ>>
      [] dbType \in {PostgreSQL, SQLite} -> <<"\"">> \o name \o <<"\"">>
      [] dbType = SQLServer -> <<"[">> \o name \o <<"]">>
      [] OTHER -> <<BQ>> \o name \o <<BQ>>

\* A row is a map from column name to value; a nil map has no key.
NilRow == [c \in {} |-> Nil]

\* row[col]: the zero value (nil) for a column the map lacks.
ValueAt(row, col) == IF col \in DOMAIN row THEN row[col] ELSE Nil

\* Lines 454-462: the map getTableData makes of a scanned row, a byte slice
\* turned into a string.
scanRow(cells, columns) ==
    [col \in {columns[i] : i \in DOMAIN columns} |->
        IF cells[col].kind = "[]byte" THEN String(cells[col].str) ELSE cells[col]]

\* Lines 465-469: the composite key of a row.
pkKeyOf(row, primaryKeys) ==
    Join([i \in DOMAIN primaryKeys |-> Sprint(ValueAt(row, primaryKeys[i]))], <<"|">>)

\* The maps getTableData can return for the rows of a table: the database
\* returns the rows in an order of its choice, and of the rows of one
\* composite key the map keeps the one that came last.
getTableData(rows, columns, primaryKeys) ==
    LET scanned == {scanRow(r, columns) : r \in rows}
        keys == {pkKeyOf(r, primaryKeys) : r \in scanned}
    IN  {data \in [keys -> scanned] :
            \A k \in keys : pkKeyOf(data[k], primaryKeys) = k}

\* rowsEqual for which NULL is equal to nothing.
rowsEqualNoNull(a, b) ==
    IF Cardinality(DOMAIN a) # Cardinality(DOMAIN b) THEN FALSE
    ELSE \A k \in DOMAIN a :
            /\ a[k].kind # "nil"
            /\ Sprint(a[k]) = Sprint(ValueAt(b, k))

rowsEqual(a, b) ==
    IF Cardinality(DOMAIN a) # Cardinality(DOMAIN b) THEN FALSE
    ELSE \A k \in DOMAIN a : Sprint(a[k]) = Sprint(ValueAt(b, k))

extractPrimaryKey(row, primaryKeys) ==
    [key \in {primaryKeys[i] : i \in DOMAIN primaryKeys} |-> ValueAt(row, key)]

\* The elements of a list that are in the set  kept , in list order.
RECURSIVE Filter(_, _)
Filter(list, kept) ==
    IF list = <<>> THEN <<>>
    ELSE (IF Head(list) \in kept THEN <<Head(list)>> ELSE <<>>) \o Filter(Tail(list), kept)

generateInsertSQL(dbType, tableName, row, columns) ==
    LET present == Filter(columns, DOMAIN row)
        cols == [i \in DOMAIN present |-> quoteIdentifier(dbType, present[i])]
        vals == [i \in DOMAIN present |-> escapeValue(row[present[i]])]
    IN  <<"INSERT INTO ">> \o quoteIdentifier(dbType, tableName) \o <<" (">>
            \o Join(cols, <<", ">>) \o <<") VALUES (">> \o Join(vals, <<", ">>) \o <<");">>

\* generateUpdateSQL whose WHERE clause names the first primary-key column
\* only.
generateUpdateSQLFirstKey(dbType, tableName, row, primaryKeys) ==
    LET isPK(col) == \E i \in DOMAIN primaryKeys : primaryKeys[i] = col
        item(col) ==
            IF ~isPK(col)
            THEN << quoteIdentifier(dbType, col) \o <<" = ">> \o escapeValue(row[col]) >>
            ELSE <<>>
        wheres == [i \in {j \in DOMAIN primaryKeys : j = 1} |->
                    quoteIdentifier(dbType, primaryKeys[i]) \o <<" = ">>
                        \o escapeValue(ValueAt(row, primaryKeys[i]))]
    IN  {<<"UPDATE ">> \o quoteIdentifier(dbType, tableName) \o <<" SET ">>
            \o Join(sets, <<", ">>) \o <<" WHERE ">> \o Join(wheres, <<" AND ">>) \o <<";">> :
            sets \in RangeOver(DOMAIN row, [key \in DOMAIN row |-> item(key)])}

\* The texts generateUpdateSQL can return: the SET items come in the order
\* in which the range over the row visits its columns.
generateUpdateSQL(dbType, tableName, row, primaryKeys) ==
    LET isPK(col) == \E i \in DOMAIN primaryKeys : primaryKeys[i] = col
        item(col) ==
            IF ~isPK(col)
            THEN << quoteIdentifier(dbType, col) \o <<" = ">> \o escapeValue(row[col]) >>
            ELSE <<>>
        wheres == [i \in DOMAIN primaryKeys |->
                    quoteIdentifier(dbType, primaryKeys[i]) \o <<" = ">>
                        \o escapeValue(ValueAt(row, primaryKeys[i]))]
    IN  {<<"UPDATE ">> \o quoteIdentifier(dbType, tableName) \o <<" SET ">>
            \o Join(sets, <<", ">>) \o <<" WHERE ">> \o Join(wheres, <<" AND ">>) \o <<";">> :
            sets \in RangeOver(DOMAIN row, [key \in DOMAIN row |-> item(key)])}

generateDeleteSQL(dbType, tableName, primaryKeys, pk) ==
    LET wheres == [i \in DOMAIN primaryKeys |->
                    quoteIdentifier(dbType, primaryKeys[i]) \o <<" = ">>
                        \o escapeValue(ValueAt(pk, primaryKeys[i]))]
    IN  <<"DELETE FROM ">> \o quoteIdentifier(dbType, tableName) \o <<" WHERE ">>
            \o Join(wheres, <<" AND ">>) \o <<";">>

DataDiffResult(type, tableName, primaryKey, oldValues, newValues, sql) ==
    [Type |-> type, TableName |-> tableName, PrimaryKey |-> primaryKey,
     OldValues |-> oldValues, NewValues |-> newValues, SQL |-> sql]

\* Lines 194-219: inserts and updates, over the keys of the source.
insertsAndUpdates(targetType, tableName, sourceData, targetData, columns, primaryKeys) ==
    LET entries(pkKey) ==
            LET sourceRow == sourceData[pkKey]
                pk == extractPrimaryKey(sourceRow, primaryKeys)
            IN  IF pkKey \in DOMAIN targetData
                THEN IF ~rowsEqual(sourceRow, targetData[pkKey])
                     THEN {<< DataDiffResult("update", tableName, pk, targetData[pkKey],
                                             sourceRow, sql) >> :
                            sql \in generateUpdateSQL(targetType, tableName, sourceRow,
                                                      primaryKeys)}
                     ELSE {<<>>}
                ELSE {<< DataDiffResult("insert", tableName, pk, NilRow, sourceRow,
                            generateInsertSQL(targetType, tableName, sourceRow, columns)) >>}
    IN  RangeOverSets(DOMAIN sourceData, [key \in DOMAIN sourceData |-> entries(key)])

\* deletedRows with the test of line 223 inverted.
deletedRowsShared(targetType, tableName, sourceData, targetData, primaryKeys) ==
    LET entry(pkKey) ==
            IF pkKey \in DOMAIN sourceData
            THEN LET pk == extractPrimaryKey(targetData[pkKey], primaryKeys)
                 IN  << DataDiffResult("delete", tableName, pk, targetData[pkKey], NilRow,
                            generateDeleteSQL(targetType, tableName, primaryKeys, pk)) >>
            ELSE <<>>
    IN  RangeOver(DOMAIN targetData, [key \in DOMAIN targetData |-> entry(key)])

\* Lines 222-233: deletes, over the keys of the target.
deletedRows(targetType, tableName, sourceData, targetData, primaryKeys) ==
    LET entry(pkKey) ==
            IF pkKey \notin DOMAIN sourceData
            THEN LET pk == extractPrimaryKey(targetData[pkKey], primaryKeys)
                 IN  << DataDiffResult("delete", tableName, pk, targetData[pkKey], NilRow,
                            generateDeleteSQL(targetType, tableName, primaryKeys, pk)) >>
            ELSE <<>>
    IN  RangeOver(DOMAIN targetData, [key \in DOMAIN targetData |-> entry(key)])

\* The test of line 169, never true.
noPrimaryKeyNever(primaryKeys) == FALSE

\* Line 169.
noPrimaryKey(primaryKeys) == Len(primaryKeys) = 0

\* The steps of CompareTableData that go to a database, and the comparison.
ConnectSource == "Connect(sourceConfig)"
ConnectTarget == "Connect(targetConfig)"
GetPrimaryKeys == "getPrimaryKeys"
GetColumns == "getColumns"
GetSourceData == "getTableData(sourceDB)"
GetTargetData == "getTableData(targetDB)"
CompareRows == "compare rows"

AdapterSteps ==
    {ConnectSource, ConnectTarget, GetPrimaryKeys, GetColumns, GetSourceData, GetTargetData}

NoError == ""
ErrNoPrimaryKey == "table has no primary key"

\* Any adapter step of a call may fail, or none.
NoFailure == "none"
Failings == AdapterSteps \cup {NoFailure}

\* What a call of CompareTableData leaves behind: the list and the error it
\* returns, the steps it took, and the two maps it fetched.
Outcome(list, err, steps, sourceData, targetData) ==
    [results |-> list, err |-> err, calls |-> steps,
     sourceData |-> sourceData, targetData |-> targetData]

NoData == [k \in {} |-> NilRow]

\* CompareTableData that runs the loop over the target (lines 222-233)
\* before the loop over the source.
CompareTableDataDeletesFirst(table, sourceRows, targetRows, configType, failing) ==
    LET tableName == table.Name
        primaryKeys == table.PrimaryKeys
        columns == table.Columns
        targetType == IF configType = "" THEN MySQL ELSE configType
        stop(err, steps) == {Outcome(<<>>, err, steps, NoData, NoData)}
        c1 == <<ConnectSource>>
        c2 == Append(c1, ConnectTarget)
        c3 == Append(c2, GetPrimaryKeys)
        c4 == Append(c3, GetColumns)
        c5 == Append(c4, GetSourceData)
        c6 == Append(c5, GetTargetData)
        c7 == Append(c6, CompareRows)
    IN  IF failing = ConnectSource THEN stop("source connection failed", c1)
        ELSE IF failing = ConnectTarget \/ configType \notin KnownTypes
        THEN stop("target connection failed", c2)
        ELSE IF failing = GetPrimaryKeys THEN stop("getPrimaryKeys failed", c3)
        ELSE IF noPrimaryKey(primaryKeys) THEN stop(ErrNoPrimaryKey, c3)
        ELSE IF failing = GetColumns THEN stop("getColumns failed", c4)
        ELSE IF failing = GetSourceData THEN stop("failed to get source data", c5)
        ELSE IF failing = GetTargetData THEN stop("failed to get target data", c6)
        ELSE UNION {{Outcome(d \o iu, NoError, c7, sourceData, targetData) :
                        iu \in insertsAndUpdates(targetType, tableName, sourceData,
                                                 targetData, columns, primaryKeys),
                        d \in deletedRows(targetType, tableName, sourceData, targetData,
                                          primaryKeys)} :
                    sourceData \in getTableData(sourceRows, columns, primaryKeys),
                    targetData \in getTableData(targetRows, columns, primaryKeys)}

\* CompareTableData on a table that has these columns and primary key and
\* holds these rows in the source (a MySQL database) and in the target (of
\* the dialect tag  configType );  failing  is the step that fails, if any.
\* The set of the outcomes it can have.
CompareTableData(table, sourceRows, targetRows, configType, failing) ==
    LET tableName == table.Name
        primaryKeys == table.PrimaryKeys
        columns == table.Columns
        targetType == IF configType = "" THEN MySQL ELSE configType
        stop(err, steps) == {Outcome(<<>>, err, steps, NoData, NoData)}
        c1 == <<ConnectSource>>
        c2 == Append(c1, ConnectTarget)
        c3 == Append(c2, GetPrimaryKeys)
        c4 == Append(c3, GetColumns)
        c5 == Append(c4, GetSourceData)
        c6 == Append(c5, GetTargetData)
        c7 == Append(c6, CompareRows)
    IN  IF failing = ConnectSource THEN stop("source connection failed", c1)
        ELSE IF failing = ConnectTarget \/ configType \notin KnownTypes
        THEN stop("target connection failed", c2)
        ELSE IF failing = GetPrimaryKeys THEN stop("getPrimaryKeys failed", c3)
        ELSE IF noPrimaryKey(primaryKeys) THEN stop(ErrNoPrimaryKey, c3)
        ELSE IF failing = GetColumns THEN stop("getColumns failed", c4)
        ELSE IF failing = GetSourceData THEN stop("failed to get source data", c5)
        ELSE IF failing = GetTargetData THEN stop("failed to get target data", c6)
        ELSE UNION {{Outcome(iu \o d, NoError, c7, sourceData, targetData) :
                        iu \in insertsAndUpdates(targetType, tableName, sourceData,
                                                 targetData, columns, primaryKeys),
                        d \in deletedRows(targetType, tableName, sourceData, targetData,
                                          primaryKeys)} :
                    sourceData \in getTableData(sourceRows, columns, primaryKeys),
                    targetData \in getTableData(targetRows, columns, primaryKeys)}

\* filteredDiffs that lets every delete through, ticked or not.
filteredDiffsDeletes(dataDiffs, syncTypes) ==
    Filter(dataDiffs, {dataDiffs[i] : i \in {j \in DOMAIN dataDiffs :
                                        dataDiffs[j].Type \in syncTypes \cup {"delete"}}})

\* Lines 290-297 of DataSync.vue: the entries whose type is ticked.
filteredDiffs(dataDiffs, syncTypes) ==
    Filter(dataDiffs, {dataDiffs[i] : i \in {j \in DOMAIN dataDiffs :
                                        dataDiffs[j].Type \in syncTypes}})

\* Line 426 of DataSync.vue:  diffs.map(d => d.sql).join('\n')
sqlOf(diffs) == Join([i \in DOMAIN diffs |-> diffs[i].SQL], <<"\n">>)

TableDataInfo(tableName, primaryKeys, columns, sourceCount, targetCount, insertCount, updateCount, deleteCount) ==
    [TableName |-> tableName, PrimaryKeys |-> primaryKeys, Columns |-> columns,
     SourceCount |-> sourceCount, TargetCount |-> targetCount,
     InsertCount |-> insertCount, UpdateCount |-> updateCount,
     DeleteCount |-> deleteCount]

\* A nil *TableDataInfo, a nil slice; a pointer to a TableDataInfo.
NilInfo == <<>>
PtrToInfo(i) == <<i>>

\* The steps GetDataSyncSummary takes after CompareTableData has returned.
SummaryConnectSource == "summary: Connect(sourceConfig)"
SummaryConnectTarget == "summary: Connect(targetConfig)"
SummaryGetPrimaryKeys == "summary: getPrimaryKeys"
SummaryGetColumns == "summary: getColumns"
CountSource == "summary: SELECT COUNT(*) of the source"
CountTarget == "summary: SELECT COUNT(*) of the target"

SummarySteps ==
    {SummaryConnectSource, SummaryConnectTarget, SummaryGetPrimaryKeys, SummaryGetColumns,
     CountSource, CountTarget}

\* How many entries of the list have the type.
countOf(diffs, type) == Cardinality({i \in DOMAIN diffs : diffs[i].Type = type})

\* GetDataSyncSummary on the table;  failing  is the step that fails, if
\* any.  The set of the pairs (info, err) it can return.
GetDataSyncSummary(table, sourceRows, targetRows, configType, failing) ==
    LET inner == IF failing \in AdapterSteps THEN failing ELSE NoFailure
        after(diffs) ==
            IF failing = SummaryConnectSource
            THEN [info |-> NilInfo, err |-> "connection failed"]
            ELSE IF failing = SummaryConnectTarget
            THEN [info |-> NilInfo, err |-> "connection failed"]
            ELSE [info |-> PtrToInfo(TableDataInfo(
                        table.Name,
                        IF failing = SummaryGetPrimaryKeys THEN <<>> ELSE table.PrimaryKeys,
                        IF failing = SummaryGetColumns THEN <<>> ELSE table.Columns,
                        IF failing = CountSource THEN 0 ELSE Cardinality(sourceRows),
                        IF failing = CountTarget THEN 0 ELSE Cardinality(targetRows),
                        countOf(diffs, "insert"),
                        countOf(diffs, "update"),
                        countOf(diffs, "delete"))),
                  err |-> NoError]
    IN  {IF o.err # NoError THEN [info |-> NilInfo, err |-> o.err] ELSE after(o.results) :
            o \in CompareTableData(table, sourceRows, targetRows, configType, inner)}

\* The steps of GetTablesForSync.
TablesConnect == "tables: Connect(config)"
GetTableNames == "tables: getTableNames"
TablesGetPrimaryKeys == "tables: getPrimaryKeys"
TablesGetColumns == "tables: getColumns"
TablesCount == "tables: SELECT COUNT(*)"

TablesSteps ==
    {TablesConnect, GetTableNames, TablesGetPrimaryKeys, TablesGetColumns, TablesCount}

\* GetTablesForSync on a database that holds the one table with these rows.
GetTablesForSync(table, rows, failing) ==
    IF failing \in TablesSteps
    THEN [info |-> NilInfo, err |-> failing]
    ELSE [info |-> << TableDataInfo(table.Name, table.PrimaryKeys, table.Columns,
                                    Cardinality(rows), 0, 0, 0, 0) >>,
          err |-> NoError]

---------------------------------------------------------------------------
(* The tables the data comparison is given, and what the database does     *)
(* with a row statement.                                                   *)

ColK == <<"k">>
ColL == <<"l">>
ColV == <<"v">>

\* A table keyed by one integer column.
SingleKey ==
    [Name |-> <<"t">>, Columns |-> <<ColK, ColV>>, PrimaryKeys |-> <<ColK>>]
\* A table keyed by two text columns.
CompositeKey ==
    [Name |-> <<"t">>, Columns |-> <<ColK, ColL, ColV>>, PrimaryKeys |-> <<ColK, ColL>>]
\* A table without a primary key.
NoKey ==
    [Name |-> <<"t">>, Columns |-> <<ColK, ColV>>, PrimaryKeys |-> <<>>]

\* A table of one row whose text may be NULL, empty, or the text that %v
\* prints for nil.
NullTexts ==
    [Name |-> <<"n">>, Columns |-> <<ColK, ColV>>, PrimaryKeys |-> <<ColK>>]

DataTables == {SingleKey, CompositeKey, NoKey, NullTexts}

\* A table keyed by one integer column whose texts hold quotes and
\* semicolons.
QuotedTexts ==
    [Name |-> <<"q">>, Columns |-> <<ColK, ColV>>, PrimaryKeys |-> <<ColK>>]

\* The cells of a stored row: NULL, a text (which the driver hands over as
\* a byte slice) or an integer.
Text(s) == Bytes(s)

\* The key pairs of the rows of CompositeKey.
KeyPairs ==
    { <<Text(<<"a">>), Text(<<"|">>)>>,
      <<Text(<<"a", "|">>), Text(<<>>)>>,
      <<Text(<<"a">>), Text(<<>>)>> }

\* The rows a table of the model may hold.
TableRows(table) ==
    IF table = CompositeKey
    THEN {[c \in {ColK, ColL, ColV} |->
                IF c = ColK THEN p[1] ELSE IF c = ColL THEN p[2] ELSE v] :
            p \in KeyPairs, v \in {Text(<<"a">>), Text(<<"b">>)}}
    ELSE IF table = SingleKey
    THEN {[c \in {ColK, ColV} |-> IF c = ColK THEN Int64(n) ELSE v] :
            n \in KeyValues, v \in {Nil, Text(<<"a", "'">>)}}
    ELSE IF table = NullTexts
    THEN {[c \in {ColK, ColV} |-> IF c = ColK THEN Int64(1) ELSE v] :
            v \in {Nil, Text(<<>>), Text(<<"<", "n", "i", "l", ">">>)}}
    ELSE IF table = QuotedTexts
    THEN {[c \in {ColK, ColV} |-> IF c = ColK THEN Int64(n) ELSE v] :
            n \in 1..2,
            v \in {Text(<<";">>), Text(<<"a", "'">>), Text(<<"'", "a">>)}}
    ELSE {[c \in {ColK, ColV} |-> IF c = ColK THEN Int64(n) ELSE Text(<<"a">>)] :
            n \in 1..2}

\* Two stored rows have the same primary key.
SamePrimaryKey(table, r1, r2) ==
    /\ table.PrimaryKeys # <<>>
    /\ \A i \in DOMAIN table.PrimaryKeys :
            r1[table.PrimaryKeys[i]] = r2[table.PrimaryKeys[i]]

\* The contents a table may have: the primary key is unique.
RowSets(table) ==
    {rows \in SUBSET TableRows(table) :
        /\ Cardinality(rows) <= MaxRows
        /\ \A r1, r2 \in rows : SamePrimaryKey(table, r1, r2) => r1 = r2}

\* The text of a literal that stands for a cell.
RECURSIVE QuoteText(_)
QuoteText(s) ==
    IF s = <<>> THEN <<>>
    ELSE IF s[Len(s)] = "'" THEN QuoteText(SubSeq(s, 1, Len(s) - 1)) \o <<"'", "'">>
    ELSE Append(QuoteText(SubSeq(s, 1, Len(s) - 1)), s[Len(s)])

Literal(cell) ==
    CASE cell.kind = "nil" -> <<"N", "U", "L", "L">>
      [] cell.kind = "int64" -> Decimal(cell.num)
      [] OTHER -> <<"'">> \o QuoteText(cell.str) \o <<"'">>

\* name = literal, for the listed columns of a row.
Equalities(row, cols) ==
    [i \in DOMAIN cols |-> <<BQ>> \o cols[i] \o <<BQ, " = ">> \o Literal(row[cols[i]])]

\* WHERE col = literal AND ... : the rows that satisfy every equality (a
\* comparison with NULL is satisfied by no row).
Matches(stored, row, cols) ==
    \A i \in DOMAIN cols :
        row[cols[i]].kind # "nil" /\ stored[cols[i]] = row[cols[i]]

\* The database runs one row statement on the rows of the table.
ApplyRowStatement(table, rows, sql) ==
    LET name == <<BQ>> \o table.Name \o <<BQ>>
        cols == table.Columns
        pks == table.PrimaryKeys
        isPK(col) == \E i \in DOMAIN pks : pks[i] = col
        rest == {cols[i] : i \in {j \in DOMAIN cols : ~isPK(cols[j])}}
        colList == Join([i \in DOMAIN cols |-> <<BQ>> \o cols[i] \o <<BQ>>], <<", ">>)
        insertText(r) ==
            <<"INSERT INTO ">> \o name \o <<" (">> \o colList \o <<") VALUES (">>
                \o Join([i \in DOMAIN cols |-> Literal(r[cols[i]])], <<", ">>) \o <<");">>
        updateText(r, p) ==
            <<"UPDATE ">> \o name \o <<" SET ">> \o Join(Equalities(r, p), <<", ">>)
                \o <<" WHERE ">> \o Join(Equalities(r, pks), <<" AND ">>) \o <<";">>
        deleteText(r) ==
            <<"DELETE FROM ">> \o name \o <<" WHERE ">>
                \o Join(Equalities(r, pks), <<" AND ">>) \o <<";">>
        inserted == {r \in TableRows(table) : sql = insertText(r)}
        updated == {r \in TableRows(table) :
                        rest # {} /\ \E p \in Perms(rest) : sql = updateText(r, p)}
        deleted == {r \in TableRows(table) : pks # <<>> /\ sql = deleteText(r)}
    IN  IF inserted # {}
        THEN LET r == CHOOSE r \in inserted : TRUE
             IN  IF \E x \in rows : SamePrimaryKey(table, x, r)
                 THEN Failed(rows)
                 ELSE Done(rows \cup {r})
        ELSE IF updated # {}
        THEN LET r == CHOOSE r \in updated : TRUE
             IN  Done({IF Matches(x, r, pks)
                       THEN [c \in DOMAIN x |-> IF isPK(c) THEN x[c] ELSE r[c]]
                       ELSE x : x \in rows})
        ELSE IF deleted # {}
        THEN LET r == CHOOSE r \in deleted : TRUE
             IN  Done({x \in rows : ~Matches(x, r, pks)})
        ELSE Failed(rows)

\* db.Exec of the statements of the entries as one batch, as ApplyAll.
RECURSIVE ApplyRows(_, _, _)
ApplyRows(table, rows, entries) ==
    IF entries = <<>> THEN Done(rows)
    ELSE LET r == ApplyRowStatement(table, rows, Head(entries).SQL)
         IN  IF r.ok THEN ApplyRows(table, r.now, Tail(entries)) ELSE r

---------------------------------------------------------------------------
(* Statement executor (app.go)                                             *)

\* The characters of the symbols of a row statement that stand for several
\* characters; every other symbol is one character.
WordChars ==
    "INSERT INTO " :> <<"I", "N", "S", "E", "R", "T", " ", "I", "N", "T", "O", " ">>
    @@ "UPDATE " :> <<"U", "P", "D", "A", "T", "E", " ">>
    @@ "DELETE FROM " :> <<"D", "E", "L", "E", "T", "E", " ", "F", "R", "O", "M", " ">>
    @@ ") VALUES (" :> <<")", " ", "V", "A", "L", "U", "E", "S", " ", "(">>
    @@ " SET " :> <<" ", "S", "E", "T", " ">>
    @@ " WHERE " :> <<" ", "W", "H", "E", "R", "E", " ">>
    @@ " AND " :> <<" ", "A", "N", "D", " ">>
    @@ " = " :> <<" ", "=", " ">>
    @@ " (" :> <<" ", "(">>
    @@ ", " :> <<",", " ">>
    @@ ");" :> <<")", ";">>

\* The text of a statement character by character, as the range over the
\* string of line 98 sees it.
RECURSIVE Characters(_)
Characters(sql) ==
    IF sql = <<>> THEN <<>>
    ELSE IF Len(sql) = 1
    THEN (IF sql[1] \in DOMAIN WordChars THEN WordChars[sql[1]] ELSE sql)
    ELSE Characters(SubSeq(sql, 1, Len(sql) \div 2))
            \o Characters(SubSeq(sql, (Len(sql) \div 2) + 1, Len(sql)))

WhiteSpace == {" ", "\n", "\t", "\r"}

\* strings.TrimSpace
RECURSIVE TrimSpace(_)
TrimSpace(text) ==
    IF text = <<>> THEN <<>>
    ELSE IF Head(text) \in WhiteSpace THEN TrimSpace(Tail(text))
    ELSE IF text[Len(text)] \in WhiteSpace THEN TrimSpace(SubSeq(text, 1, Len(text) - 1))
    ELSE text

\* Lines 115-119 and 127-130: the statement collected so far is kept unless
\* it is blank.
withStatement(list, current) ==
    LET stmt == TrimSpace(current)
    IN  IF stmt # <<>> THEN Append(list, stmt) ELSE list

\* The first of a set of positions.
First(positions) == CHOOSE k \in positions : \A m \in positions : k <= m

\* Lines 98-125: the loop of splitSQLStatements from character  i  on, the
\* statement being collected having begun at character  start .  Inside a
\* string the loop copies up to the first  stringChar  that is not followed
\* by another one; outside it copies up to the first quote or semicolon.
RECURSIVE splitFrom(_, _, _, _, _, _)
splitFrom(sql, i, start, inString, stringChar, list) ==
    LET closing == {k \in i..Len(sql) :
                        /\ sql[k] = stringChar
                        /\ ~(k + 1 <= Len(sql) /\ sql[k + 1] = stringChar)}
        marks == {k \in i..Len(sql) : sql[k] \in {"'", "\"", ";"}}
        current(k) == SubSeq(sql, start, k)
    IN  IF inString
        THEN IF closing = {} THEN withStatement(list, current(Len(sql)))
             ELSE splitFrom(sql, First(closing) + 1, start, FALSE, stringChar, list)
        ELSE IF marks = {} THEN withStatement(list, current(Len(sql)))
        ELSE IF sql[First(marks)] = ";"
        THEN splitFrom(sql, First(marks) + 1, First(marks) + 1, FALSE, stringChar,
                       withStatement(list, current(First(marks) - 1)))
        ELSE splitFrom(sql, First(marks) + 1, start, TRUE, sql[First(marks)], list)

\* splitSQLStatements on a text given character by character.
splitSQLStatements(sql) == splitFrom(sql, 1, 1, FALSE, "", <<>>)

\* The name of a table or column in the syntax of the database.
QuotedName(dbType, name) ==
    CASE dbType \in {PostgreSQL, SQLite} -> <<"\"">> \o name \o <<"\"">>
      [] dbType = SQLServer -> <<"[">> \o name \o <<"]">>
      [] OTHER -> <<BQ>> \o name \o <<BQ>>

\* db.Exec of one statement, given character by character without its
\* semicolon, on a database of the dialect: what ApplyRowStatement does
\* with it when it is a row statement in the syntax of the database, and an
\* error otherwise.
DatabaseExec(dbType, table, rows, stmt) ==
    LET name == QuotedName(dbType, table.Name)
        cols == table.Columns
        pks == table.PrimaryKeys
        isPK(col) == \E i \in DOMAIN pks : pks[i] = col
        rest == {cols[i] : i \in {j \in DOMAIN cols : ~isPK(cols[j])}}
        equalities(r, list) ==
            [i \in DOMAIN list |->
                QuotedName(dbType, list[i]) \o <<" = ">> \o Literal(r[list[i]])]
        insertText(r) ==
            <<"INSERT INTO ">> \o name \o <<" (">>
                \o Join([i \in DOMAIN cols |-> QuotedName(dbType, cols[i])], <<", ">>)
                \o <<") VALUES (">>
                \o Join([i \in DOMAIN cols |-> Literal(r[cols[i]])], <<", ">>) \o <<")">>
        updateText(r, p) ==
            <<"UPDATE ">> \o name \o <<" SET ">> \o Join(equalities(r, p), <<", ">>)
                \o <<" WHERE ">> \o Join(equalities(r, pks), <<" AND ">>)
        deleteText(r) ==
            <<"DELETE FROM ">> \o name \o <<" WHERE ">>
                \o Join(equalities(r, pks), <<" AND ">>)
        inserted == {r \in TableRows(table) : stmt = Characters(insertText(r))}
        updated == {r \in TableRows(table) :
                        rest # {} /\ \E p \in Perms(rest) : stmt = Characters(updateText(r, p))}
        deleted == {r \in TableRows(table) :
                        pks # <<>> /\ stmt = Characters(deleteText(r))}
    IN  IF inserted # {}
        THEN LET r == CHOOSE r \in inserted : TRUE
             IN  IF \E x \in rows : SamePrimaryKey(table, x, r)
                 THEN Failed(rows)
                 ELSE Done(rows \cup {r})
        ELSE IF updated # {}
        THEN LET r == CHOOSE r \in updated : TRUE
             IN  Done({IF Matches(x, r, pks)
                       THEN [c \in DOMAIN x |-> IF isPK(c) THEN x[c] ELSE r[c]]
                       ELSE x : x \in rows})
        ELSE IF deleted # {}
        THEN LET r == CHOOSE r \in deleted : TRUE
             IN  Done({x \in rows : ~Matches(x, r, pks)})
        ELSE Failed(rows)

\* What a call of App.ExecuteSQL leaves behind: the error it returns, the
\* rows of the table, the statements splitSQLStatements returned and the
\* texts db.Exec was given, in order.
Executed(err, rows, list, given) ==
    [err |-> err, now |-> rows, statements |-> list, ran |-> given]

ErrConnect == "connection failed"
ErrExec == "statement failed"

\* execFrom that goes on to the next statement after one has failed.
RECURSIVE execFromGoingOn(_, _, _, _, _, _)
execFromGoingOn(dbType, table, rows, list, i, given) ==
    IF i > Len(list) THEN Executed(NoError, rows, list, given)
    ELSE LET stmt == TrimSpace(list[i])
         IN  IF stmt = <<>> THEN execFromGoingOn(dbType, table, rows, list, i + 1, given)
             ELSE LET r == DatabaseExec(dbType, table, rows, stmt)
                      rest == execFromGoingOn(dbType, table, r.now, list, i + 1,
                                              Append(given, stmt))
                  IN  IF ~r.ok THEN Executed(ErrExec, rest.now, list, rest.ran)
                      ELSE rest

\* Lines 80-88: the statements one by one, from statement  i  on.
RECURSIVE execFrom(_, _, _, _, _, _)
execFrom(dbType, table, rows, list, i, given) ==
    IF i > Len(list) THEN Executed(NoError, rows, list, given)
    ELSE LET stmt == TrimSpace(list[i])
         IN  IF stmt = <<>> THEN execFrom(dbType, table, rows, list, i + 1, given)
             ELSE LET r == DatabaseExec(dbType, table, rows, stmt)
                  IN  IF ~r.ok THEN Executed(ErrExec, r.now, list, Append(given, stmt))
                      ELSE execFrom(dbType, table, r.now, list, i + 1, Append(given, stmt))

\* App.ExecuteSQL on the target, a database of the dialect tag  dbType  that
\* holds the table with these rows, given the statements of the entries
\* joined by new lines.
AppExecuteSQL(dbType, table, rows, entries, connected) ==
    LET sql == Characters(sqlOf(entries))
    IN  IF ~connected THEN Executed(ErrConnect, rows, <<>>, <<>>)
        ELSE IF dbType = "" \/ dbType = MySQL
        THEN LET r == ApplyRows(table, rows, entries)
             IN  Executed(IF r.ok THEN NoError ELSE ErrExec, r.now, <<>>, <<sql>>)
        ELSE execFrom(dbType, table, rows, splitSQLStatements(sql), 1, <<>>)

---------------------------------------------------------------------------
(* The two comparisons as state machines                                   *)

\* Length of the texts given to escapeValue and of the default texts given
\* to buildColumnDef.
MaxText == 3

\* The texts of at most n characters of the alphabet.
TextsOver(alphabet, n) == UNION {[1..k -> alphabet] : k \in 0..n}

\* The values escapeValue is given: texts with quotes and backslashes, and
\* values of every numeric type, of bool and of []byte.
Values ==
    {Nil}
        \cup {String(t) : t \in TextsOver({"O", "'", "\\"}, MaxText)}
        \cup {Bytes(t) : t \in TextsOver({"O", "'"}, 1)}
        \cup {Integer(k, n) : k \in SignedKinds, n \in {0 - 12, 0, 7}}
        \cup {Integer(k, n) : k \in UnsignedKinds, n \in {0, 7}}
        \cup {Float(k, h) : k \in FloatKinds, h \in {0 - 3, 0, 5}}
        \cup {Bool(TRUE), Bool(FALSE)}

\* Default texts that are keywords in some case, function calls, expressions
\* in parentheses, and texts that come close to them.
KeywordTexts ==
    {specialDefaults[i] : i \in DOMAIN specialDefaults}
        \cup { <<"n", "u", "l", "l">>, <<"N", "u", "l", "l">>,
               <<"n", "o", "w", "(", ")">>, <<"t", "r", "u", "e">>,
               <<"F", "a", "l", "s", "e">>,
               <<"c", "u", "r", "r", "e", "n", "t", "_", "d", "a", "t", "e">>,
               <<"u", "u", "i", "d", "(", ")">>, <<"(", "1", "+", "1", ")">>,
               <<"N", "U", "L", "L", "S">>, <<"T", "R", "U", "E", " ">>,
               <<"N", "O", "W">>, <<"1", "e", "3">> }

\* The columns buildColumnDef is given.
ColumnInputs ==
    {ColumnInfo(ColNamePool[1], t, n, <<>>, d, e, 1) :
        t \in Types, n \in Nullables, e \in Extras,
        d \in {NilString}
                \cup {PtrTo(v) : v \in KeywordTexts
                        \cup TextsOver({"-", ".", "1", "(", ")", "a"}, MaxText)}}

\* The dialect tags a connection may carry: the known ones and another.
ConfigTypes == KnownTypes \cup {"oracle"}

VARIABLES
    source,     \* the schema of the source database
    target,     \* the schema of the target database
    dialect,    \* the dialect tag of the target connection
    results,    \* the list App.CompareSchemas returned first
    schemaErr,  \* the error it returned
    second,     \* the list a later call of CompareSchemas returned
    table,      \* the table whose rows are compared
    sourceRows, \* its rows in the source database
    targetRows, \* its rows in the target database
    dataDiffs,  \* the list CompareTableData returned first
    dataErr,    \* the error it returned
    calls,      \* the steps it took
    fetched,    \* the two maps it fetched
    syncTypes,  \* the entry types ticked when Execute Sync was pressed
    executed,   \* the texts ExecuteSQL was given by Execute Sync
    dataSecond, \* the list a later call of CompareTableData returned
    split,      \* the statements splitSQLStatements returned to ExecuteSQL
    ran,        \* the texts ExecuteSQL gave to db.Exec, in order
    execErr,    \* the error ExecuteSQL returned
    info,       \* what GetDataSyncSummary or GetTablesForSync returned
    infoErr,    \* the error it returned
    infoFailing, \* the step that failed in that call, if any
    value,      \* the value given to escapeValue
    escaped,    \* the text escapeValue returned
    columnInfo,     \* the column given to buildColumnDef
    columnDef,  \* the text buildColumnDef returned
    pc          \* what has been done so far

schemaVars == <<source, target, dialect, results, schemaErr, second>>
dataVars ==
    <<table, sourceRows, targetRows, dataDiffs, dataErr, calls, fetched, syncTypes,
      executed, dataSecond, split, ran, execErr>>
execVars == <<split, ran, execErr>>
infoVars == <<info, infoErr, infoFailing>>
utilVars == <<value, escaped, columnInfo, columnDef>>
vars == <<schemaVars, dataVars, infoVars, utilVars, pc>>

SyncTypes == {"insert", "update", "delete"}

\* The data comparison before anything is compared; the ticks are those of
\* DataSync.vue, lines 265-267.
DataIdle ==
    /\ dataDiffs = <<>>
    /\ dataErr = NoError
    /\ calls = <<>>
    /\ fetched = [source |-> NoData, target |-> NoData]
    /\ syncTypes = {"insert", "update"}
    /\ executed = <<>>
    /\ dataSecond = <<>>
    /\ split = <<>>
    /\ ran = <<>>
    /\ execErr = NoError
    /\ info = NilInfo
    /\ infoErr = NoError
    /\ infoFailing = NoFailure

SchemaIdle ==
    /\ results = <<>>
    /\ schemaErr = NoError
    /\ second = <<>>

UtilIdle ==
    /\ value = Nil
    /\ escaped = <<>>
    /\ columnInfo = ColumnInfo(ColNamePool[1], <<"INT">>, <<"NO">>, <<>>, NilString, <<>>, 1)
    /\ columnDef = <<>>

SchemaInit ==
    /\ \E p \in SnapshotPairs : source = p[1] /\ target = p[2]
    /\ dialect = MySQL
    /\ SchemaIdle
    /\ table = NoKey /\ sourceRows = {} /\ targetRows = {}
    /\ DataIdle
    /\ UtilIdle
    /\ pc = "ready"

\* App.CompareSchemas: the first comparison of source and target; either
\* GetSchema may fail.
Compare ==
    /\ pc = "ready"
    /\ \E failing \in {GetSourceSchema, GetTargetSchema, NoFailure} :
        \E o \in AppCompareSchemas(MySQL, dialect, source, target, failing) :
            /\ results' = o.results
            /\ schemaErr' = o.err
            /\ pc' = IF o.err = NoError THEN "compared" ELSE "compareFailed"
    /\ UNCHANGED <<source, target, dialect, second, dataVars, infoVars, utilVars>>

\* The same call once more, on the same two snapshots.
CompareAgain ==
    /\ pc = "compared"
    /\ \E r \in CompareSchemas(source, target) : second' = r
    /\ pc' = "again"
    /\ UNCHANGED <<source, target, dialect, results, schemaErr, dataVars, infoVars, utilVars>>

\* The call with the two snapshots exchanged.
CompareReverse ==
    /\ pc = "compared"
    /\ \E r \in CompareSchemas(target, source) : second' = r
    /\ pc' = "reversed"
    /\ UNCHANGED <<source, target, dialect, results, schemaErr, dataVars, infoVars, utilVars>>

\* executeSQL of the schema page: ExecuteSQL gives the target database the
\* generated statements in list order; when none fails the schemas are
\* compared again, otherwise the handler reports the failure.
ExecuteAll ==
    /\ pc = "compared"
    /\ LET r == ApplyAll(target, results)
       IN  /\ target' = r.now
           /\ IF r.ok
              THEN /\ \E l \in CompareSchemas(source, r.now) : second' = l
                   /\ pc' = "recompared"
              ELSE /\ second' = second
                   /\ pc' = "failed"
    /\ UNCHANGED <<source, dialect, results, schemaErr, dataVars, infoVars, utilVars>>

\* compareSchemas pressed after a failed execution.
Recompare ==
    /\ pc = "failed"
    /\ \E r \in CompareSchemas(source, target) : second' = r
    /\ pc' = "recompared"
    /\ UNCHANGED <<source, target, dialect, results, schemaErr, dataVars, infoVars, utilVars>>

SchemaNext == Compare \/ CompareAgain \/ CompareReverse \/ ExecuteAll \/ Recompare

SchemaSpec == SchemaInit /\ [][SchemaNext]_vars

\* sort.Slice behaves as modelled for every list the model builds.
WithinInsertionSort == Len(results) <= MaxInsertion /\ Len(second) <= MaxInsertion

NoSchema == SchemaInfo(<<"db">>, [n \in {} |-> <<>>])

\* A table of the model with any rows on either side, nothing compared.
DataStart ==
    /\ \E t \in DataTables :
        /\ table = t
        /\ sourceRows \in RowSets(t)
        /\ targetRows \in RowSets(t)
    /\ DataIdle
    /\ source = NoSchema /\ target = NoSchema
    /\ SchemaIdle
    /\ UtilIdle
    /\ pc = "ready"

DataInit == DataStart /\ dialect = MySQL

\* compareSelectedTables: CompareTableData on the table.
CompareData ==
    /\ pc = "ready"
    /\ \E failing \in Failings :
        \E o \in CompareTableData(table, sourceRows, targetRows, dialect, failing) :
            /\ dataDiffs' = o.results
            /\ dataErr' = o.err
            /\ calls' = o.calls
            /\ fetched' = [source |-> o.sourceData, target |-> o.targetData]
            /\ pc' = IF o.err = NoError THEN "diffed" ELSE "diffFailed"
    /\ UNCHANGED <<table, sourceRows, targetRows, syncTypes, executed, dataSecond, execVars,
                   schemaVars, infoVars, utilVars>>

\* executeSync: with some setting of the three ticks, the handler returns
\* when no entry is ticked; otherwise ExecuteSQL gives the target database
\* the statements of the ticked entries, and when it returns no error the
\* table is compared again.  ExecuteSQL fails when it cannot connect or when
\* a statement fails.
ExecuteSync ==
    /\ pc = "diffed"
    /\ \E types \in SUBSET SyncTypes, connected \in BOOLEAN :
        LET sent == filteredDiffs(dataDiffs, types)
            r == AppExecuteSQL(dialect, table, targetRows, sent, connected)
        IN  /\ syncTypes' = types
            /\ IF sent = <<>>
               THEN /\ UNCHANGED <<targetRows, executed, dataSecond, execVars>>
                    /\ pc' = "nothingToSync"
               ELSE /\ executed' = Append(executed, sqlOf(sent))
                    /\ targetRows' = r.now
                    /\ split' = r.statements
                    /\ ran' = r.ran
                    /\ execErr' = r.err
                    /\ IF r.err = NoError
                       THEN \E o \in CompareTableData(table, sourceRows, r.now, dialect, NoFailure) :
                                /\ dataSecond' = o.results
                                /\ pc' = "resynced"
                       ELSE /\ UNCHANGED dataSecond
                            /\ pc' = "syncFailed"
    /\ UNCHANGED <<table, sourceRows, dataDiffs, dataErr, calls, fetched, schemaVars,
                   infoVars, utilVars>>

\* compareSelectedTables pressed after a failed execution.
RecompareData ==
    /\ pc = "syncFailed"
    /\ \E o \in CompareTableData(table, sourceRows, targetRows, dialect, NoFailure) :
            dataSecond' = o.results
    /\ pc' = "diffedAgain"
    /\ UNCHANGED <<table, sourceRows, targetRows, dataDiffs, dataErr, calls, fetched,
                   syncTypes, executed, execVars, schemaVars, infoVars, utilVars>>

DataNext == CompareData \/ ExecuteSync \/ RecompareData

DataSpec == DataInit /\ [][DataNext]_vars

\* Execute Sync on a target of any dialect: a table whose texts hold quotes
\* and semicolons, with any rows on either side.
ExecInit ==
    /\ table = QuotedTexts
    /\ sourceRows \in RowSets(QuotedTexts)
    /\ targetRows \in RowSets(QuotedTexts)
    /\ dialect \in {MySQL, PostgreSQL, SQLite, SQLServer}
    /\ DataIdle
    /\ source = NoSchema /\ target = NoSchema
    /\ SchemaIdle
    /\ UtilIdle
    /\ pc = "ready"

ExecSpec == ExecInit /\ [][DataNext]_vars

\* The first comparison of either page, on connections of any dialect tag.
CompareInit ==
    \/ /\ source \in TableSnapshots
       /\ target \in TableSnapshots
       /\ dialect \in ConfigTypes
       /\ SchemaIdle
       /\ table = NoKey /\ sourceRows = {} /\ targetRows = {}
       /\ DataIdle
       /\ UtilIdle
       /\ pc = "ready"
    \/ DataStart /\ dialect \in ConfigTypes

CompareNext == Compare \/ CompareData

CompareSpec == CompareInit /\ [][CompareNext]_vars

\* GetDataSyncSummary on the table, any of its steps failing or none.
Summarize ==
    /\ pc = "ready"
    /\ \E failing \in AdapterSteps \cup SummarySteps \cup {NoFailure} :
        \E o \in GetDataSyncSummary(table, sourceRows, targetRows, dialect, failing) :
            /\ info' = o.info
            /\ infoErr' = o.err
            /\ infoFailing' = failing
    /\ pc' = "summarized"
    /\ UNCHANGED <<dataVars, schemaVars, utilVars>>

\* loadTables of DataSync.vue: GetTablesForSync on the source database.
LoadTables ==
    /\ pc = "ready"
    /\ \E failing \in TablesSteps \cup {NoFailure} :
        LET o == GetTablesForSync(table, sourceRows, failing)
        IN  /\ info' = o.info
            /\ infoErr' = o.err
            /\ infoFailing' = failing
    /\ pc' = "listed"
    /\ UNCHANGED <<dataVars, schemaVars, utilVars>>

SummaryNext == Summarize \/ LoadTables

SummarySpec == DataInit /\ [][SummaryNext]_vars

\* The two renderers of the Statement Generator, each given one input.
UtilInit ==
    /\ \/ value \in Values /\ columnInfo = ColumnInfo(ColNamePool[1], <<"INT">>, <<"NO">>,
                                                 <<>>, NilString, <<>>, 1)
       \/ value = Nil /\ columnInfo \in ColumnInputs
    /\ escaped = <<>>
    /\ columnDef = <<>>
    /\ source = NoSchema /\ target = NoSchema
    /\ dialect = MySQL
    /\ SchemaIdle
    /\ table = NoKey /\ sourceRows = {} /\ targetRows = {}
    /\ DataIdle
    /\ pc = "ready"

Escape ==
    /\ pc = "ready"
    /\ escaped' = escapeValue(value)
    /\ pc' = "escaped"
    /\ UNCHANGED <<value, columnInfo, columnDef, schemaVars, dataVars, infoVars>>

BuildDef ==
    /\ pc = "ready"
    /\ columnDef' = buildColumnDef(columnInfo)
    /\ pc' = "built"
    /\ UNCHANGED <<value, escaped, columnInfo, schemaVars, dataVars, infoVars>>

UtilNext == Escape \/ BuildDef

UtilSpec == UtilInit /\ [][UtilNext]_vars

---------------------------------------------------------------------------
(* Properties of the schema comparison                                     *)

HasEntry(list, type, tableName) ==
    \E i \in DOMAIN list : list[i].Type = type /\ list[i].TableName = tableName

\* The text buildColumnDef renders of a column means the column's attributes.
Faithful(col) == AttrsOf(col) \in ParseColumnDef(buildColumnDef(col))

AllFaithful ==
    \A n \in DOMAIN source.Tables :
        \A i \in DOMAIN source.Tables[n].Columns : Faithful(source.Tables[n].Columns[i])

\* C1 - Schema convergence: when every statement CompareSchemas(source,
\* target) returned has been given to the target in the returned order,
\* CompareSchemas(source, target') returns the empty list.  It is stated
\* here for the sources whose column definitions are rendered faithfully.
SchemaConvergence == (pc = "recompared" /\ AllFaithful) => second = <<>>

\* C3 - Deterministic ordering: a second call of CompareSchemas on the same
\* two snapshots returns the same entries in the same order.
DeterministicOrdering == pc = "again" => second = results

\* C4 - Schema idempotence: CompareSchemas(S, S) returns the empty list.
SchemaIdempotence == (pc = "compared" /\ source = target) => results = <<>>

\* A snapshot compared with itself, holding a table of several columns and
\* a secondary index.
SchemaIdempotenceWitness ==
    /\ pc = "compared"
    /\ source = target
    /\ results = <<>>
    /\ \E n \in DOMAIN source.Tables :
        /\ Len(source.Tables[n].Columns) >= 2
        /\ \E i \in DOMAIN source.Tables[n].Indexes :
                source.Tables[n].Indexes[i].Name # PRIMARY

\* C8 - Antisymmetry of table existence: CompareSchemas(A, B) holds an
\* added entry for a table exactly when CompareSchemas(B, A) holds a removed
\* entry for it.
TableAntisymmetry ==
    pc = "reversed" =>
        \A T \in TableNames \cup DOMAIN source.Tables \cup DOMAIN target.Tables :
            HasEntry(results, "added", T) <=> HasEntry(second, "removed", T)

\* Both calls made, with a table only in the source and another only in the
\* target.
TableAntisymmetryWitness ==
    /\ pc = "reversed"
    /\ \E T \in DOMAIN source.Tables \ DOMAIN target.Tables :
        HasEntry(results, "added", T) /\ HasEntry(second, "removed", T)
    /\ \E T \in DOMAIN target.Tables \ DOMAIN source.Tables :
        ~HasEntry(results, "added", T) /\ ~HasEntry(second, "removed", T)

KindRank(type) ==
    CASE type = "added" -> 0 [] type = "modified" -> 1 [] type = "removed" -> 2

IsSorted(list) ==
    \A i \in 1..(Len(list) - 1) :
        /\ KindRank(list[i].Type) <= KindRank(list[i + 1].Type)
        /\ list[i].Type = list[i + 1].Type
            => ~StrLess(list[i + 1].TableName, list[i].TableName)

\* C9 - Sorted output: in every list CompareSchemas returns, the kind rank
\* (added 0, modified 1, removed 2) never decreases from an entry to the
\* next, and within one kind the table name never decreases.
SortedOutput == IsSorted(results) /\ IsSorted(second)

\* A list of two kinds, with two entries of one kind for different tables.
SortedOutputWitness ==
    /\ pc = "compared"
    /\ \E i, j \in DOMAIN results : results[i].Type # results[j].Type
    /\ \E i, j \in DOMAIN results :
        /\ results[i].Type = results[j].Type
        /\ results[i].TableName # results[j].TableName

\* Column equality as the specification words it.
ColumnEqual(a, b) ==
    /\ a.Type = b.Type
    /\ a.Nullable = b.Nullable
    /\ a.Extra = b.Extra
    /\ a.Default = b.Default

ColumnNamed(tbl, c) ==
    tbl.Columns[CHOOSE i \in DOMAIN tbl.Columns : tbl.Columns[i].Name = c]

ColumnNamesOf(tbl) == {tbl.Columns[i].Name : i \in DOMAIN tbl.Columns}

\* How many entries of the list, for the table, have this detail / a detail
\* that starts so.
CountDetail(list, tableName, detail) ==
    Cardinality({i \in DOMAIN list :
                    list[i].TableName = tableName /\ list[i].Detail = detail})

CountDetailPrefix(list, tableName, prefix) ==
    Cardinality({i \in DOMAIN list :
                    list[i].TableName = tableName /\ HasPrefix(list[i].Detail, prefix)})

\* C10 - Column-level diff is exact: for a table of both snapshots there is
\* one "Add column" entry per column only in the source, one "Drop column"
\* entry per column only in the target, one "Modify column" entry per
\* column of both that is not column-equal, and no other column entry.
ColumnDiffExact ==
    pc = "compared" =>
        \A n \in DOMAIN source.Tables \cap DOMAIN target.Tables :
            LET s == source.Tables[n]
                t == target.Tables[n]
                inS == ColumnNamesOf(s)
                inT == ColumnNamesOf(t)
            IN  /\ \A i \in DOMAIN results : results[i].TableName = n
                        => results[i].Type = "modified"
                /\ \A c \in ColNames \cup inS \cup inT :
                    /\ CountDetail(results, n, <<"Add column: ">> \o c)
                            = IF c \in inS \ inT THEN 1 ELSE 0
                    /\ CountDetail(results, n, <<"Drop column: ">> \o c)
                            = IF c \in inT \ inS THEN 1 ELSE 0
                    /\ CountDetailPrefix(results, n, <<"Modify column: ">> \o c \o <<" (">>)
                            = IF c \in inS \cap inT
                                 /\ ~ColumnEqual(ColumnNamed(s, c), ColumnNamed(t, c))
                              THEN 1 ELSE 0
                /\ CountDetailPrefix(results, n, <<"Add column: ">>)
                        = Cardinality(inS \ inT)
                /\ CountDetailPrefix(results, n, <<"Drop column: ">>)
                        = Cardinality(inT \ inS)
                /\ CountDetailPrefix(results, n, <<"Modify column: ">>)
                        = Cardinality({c \in inS \cap inT :
                                ~ColumnEqual(ColumnNamed(s, c), ColumnNamed(t, c))})

\* A table with a column only in the source, a column only in the target
\* and a column of both that differs, compared.
ColumnDiffExactWitness ==
    /\ pc = "compared"
    /\ \E n \in DOMAIN source.Tables \cap DOMAIN target.Tables :
        LET s == source.Tables[n]
            t == target.Tables[n]
            inS == ColumnNamesOf(s)
            inT == ColumnNamesOf(t)
        IN  /\ inS \ inT # {}
            /\ inT \ inS # {}
            /\ \E c \in inS \cap inT : ~ColumnEqual(ColumnNamed(s, c), ColumnNamed(t, c))
            /\ CountDetailPrefix(results, n, <<"Add column: ">>) = 1
            /\ CountDetailPrefix(results, n, <<"Drop column: ">>) = 1
            /\ CountDetailPrefix(results, n, <<"Modify column: ">>) = 1

\* The entries of the first list of the type for the table name.
TableEntries(type, T) ==
    {i \in DOMAIN results : results[i].Type = type /\ results[i].TableName = T}

\* C11 - Table-level diff is exact: CompareSchemas returns one added entry
\* per table name of the source that the target lacks, its statement the
\* source's create text followed by ";", one removed entry per table name
\* of the target that the source lacks, its statement DROP TABLE of that
\* name, and no added or removed entry for any other name; names that
\* differ in case only are different names.
TableDiffExact ==
    pc = "compared" =>
        LET inS == DOMAIN source.Tables
            inT == DOMAIN target.Tables
        IN  /\ \A i \in DOMAIN results :
                    results[i].Type \in {"added", "removed"}
                        => results[i].TableName \in inS \cup inT
            /\ \A T \in inS \cup inT :
                /\ Cardinality(TableEntries("added", T)) = IF T \in inS \ inT THEN 1 ELSE 0
                /\ Cardinality(TableEntries("removed", T)) = IF T \in inT \ inS THEN 1 ELSE 0
                /\ \A i \in TableEntries("added", T) :
                        results[i].SQL = source.Tables[T].CreateSQL \o <<";">>
                /\ \A i \in TableEntries("removed", T) :
                        results[i].SQL = <<"DROP TABLE ", BQ>> \o T \o <<BQ, ";">>

\* The source holds  a  and not  A , the target  A  and not  a , and both
\* hold a third table:  a  is added and  A  is removed.
TableDiffExactWitness ==
    /\ pc = "compared"
    /\ <<"a">> \in DOMAIN source.Tables \ DOMAIN target.Tables
    /\ <<"A">> \in DOMAIN target.Tables \ DOMAIN source.Tables
    /\ DOMAIN source.Tables \cap DOMAIN target.Tables # {}
    /\ Cardinality(TableEntries("added", <<"a">>)) = 1
    /\ Cardinality(TableEntries("removed", <<"A">>)) = 1

\* The column an ADD COLUMN statement places the new column after, if any.
AfterColumns(sql) ==
    {a \in ColNames : HasSuffix(sql, <<" AFTER ", BQ>> \o a \o <<BQ, ";">>)}

\* The columns an ADD INDEX statement lists.
ListedColumns(sql) ==
    {c \in ColNames :
        \E l \in ColLists :
            /\ \E k \in DOMAIN l : l[k] = c
            /\ HasSuffix(sql, <<" (">>
                    \o Join([k \in DOMAIN l |-> <<BQ>> \o l[k] \o <<BQ>>], <<", ">>)
                    \o <<");">>)}

\* The entries can be run in list order on tables that hold the columns
\*  cols : each ADD COLUMN ... AFTER names a column that is there, each ADD
\* INDEX lists columns that are there.
RECURSIVE ExecutableFrom(_, _)
ExecutableFrom(cols, entries) ==
    IF entries = <<>> THEN TRUE
    ELSE LET e == Head(entries)
             T == e.TableName
             has == IF T \in DOMAIN cols THEN cols[T] ELSE {}
             with(set) == [n \in DOMAIN cols \cup {T} |-> IF n = T THEN set ELSE cols[n]]
             named(prefix) == {c \in ColNames : e.Detail = prefix \o c}
         IN  IF e.Type = "added"
             THEN ExecutableFrom(with(ColumnNamesOf(source.Tables[T])), Tail(entries))
             ELSE IF e.Type = "removed"
             THEN ExecutableFrom([n \in DOMAIN cols \ {T} |-> cols[n]], Tail(entries))
             ELSE IF named(<<"Add column: ">>) # {}
             THEN /\ AfterColumns(e.SQL) \subseteq has
                  /\ ExecutableFrom(with(has \cup named(<<"Add column: ">>)), Tail(entries))
             ELSE IF named(<<"Drop column: ">>) # {}
             THEN ExecutableFrom(with(has \ named(<<"Drop column: ">>)), Tail(entries))
             ELSE IF HasPrefix(e.Detail, <<"Add index: ">>)
                     \/ HasPrefix(e.Detail, <<"Recreate index: ">>)
             THEN /\ ListedColumns(e.SQL) \subseteq has
                  /\ ExecutableFrom(cols, Tail(entries))
             ELSE ExecutableFrom(cols, Tail(entries))

\* C19 - Statements are executable in output order: when the entries are
\* applied to the target one by one in the returned order, the column of each
\* ADD COLUMN ... AFTER clause and every column an ADD INDEX lists is in the
\* target at that point or was added by an earlier entry.
StatementsExecutable ==
    pc = "compared" =>
        ExecutableFrom([n \in DOMAIN target.Tables |-> ColumnNamesOf(target.Tables[n])],
                       results)

\* Two defaults are both absent, or both present with the same text.
NullAwareEqual(a, b) ==
    \/ a = NilString /\ b = NilString
    \/ /\ a # NilString
       /\ b # NilString
       /\ a[1] = b[1]

\* Same type text, nullability flag and extra-attribute text.
SameTexts(a, b) == a.Type = b.Type /\ a.Nullable = b.Nullable /\ a.Extra = b.Extra

\* C23 - Column equality: a column of a table of both snapshots gets no
\* "Modify column" entry exactly when its two descriptors have the same type
\* text, nullability flag and extra-attribute text and null-aware equal
\* defaults; a difference in key-role tag or ordinal position alone gives no
\* entry, and an absent default differs from a present empty one.
ColumnEquality ==
    pc = "compared" =>
        \A n \in DOMAIN source.Tables \cap DOMAIN target.Tables :
            \A c \in ColumnNamesOf(source.Tables[n]) \cap ColumnNamesOf(target.Tables[n]) :
                LET a == ColumnNamed(source.Tables[n], c)
                    b == ColumnNamed(target.Tables[n], c)
                IN  CountDetailPrefix(results, n, <<"Modify column: ">> \o c \o <<" (">>) = 0
                        <=> SameTexts(a, b) /\ NullAwareEqual(a.Default, b.Default)

\* A column whose key-role tag differs between source and target, compared
\* without a "Modify column" entry for its table.
ColumnEqualityWitness ==
    /\ pc = "compared"
    /\ \E n \in DOMAIN source.Tables \cap DOMAIN target.Tables :
        /\ CountDetailPrefix(results, n, <<"Modify column: ">>) = 0
        /\ \E c \in ColumnNamesOf(source.Tables[n]) \cap ColumnNamesOf(target.Tables[n]) :
                ColumnNamed(source.Tables[n], c).Key # ColumnNamed(target.Tables[n], c).Key

\* The "Add column" entries of the list for a column of the table.
AddColumnEntries(n, c) ==
    {results[i] : i \in {j \in DOMAIN results :
                            /\ results[j].TableName = n
                            /\ results[j].Detail = <<"Add column: ">> \o c}}

\* How many positional clauses a statement carries.
PositionalClauses(sql) ==
    Cardinality({i \in DOMAIN sql : sql[i] \in {" FIRST", " AFTER "}})

\* C24 - Add-column placement: every "Add column" statement carries exactly
\* one positional clause, FIRST when the column's ordinal position in the
\* source is 1 and otherwise AFTER the source column whose ordinal position
\* is one less.
AddColumnPlacement ==
    pc = "compared" =>
        \A n \in DOMAIN source.Tables \cap DOMAIN target.Tables :
            \A c \in ColumnNamesOf(source.Tables[n]) :
                \A e \in AddColumnEntries(n, c) :
                    LET col == ColumnNamed(source.Tables[n], c)
                        cols == source.Tables[n].Columns
                    IN  /\ PositionalClauses(e.SQL) = 1
                        /\ IF col.Position = 1
                           THEN HasSuffix(e.SQL, <<" FIRST", ";">>)
                           ELSE \E i \in DOMAIN cols :
                                    /\ cols[i].Position = col.Position - 1
                                    /\ HasSuffix(e.SQL, <<" AFTER ", BQ>> \o cols[i].Name
                                                            \o <<BQ, ";">>)

\* The first and the second column of the source were both added.
AddColumnPlacementWitness ==
    /\ pc = "compared"
    /\ \E n \in DOMAIN source.Tables \cap DOMAIN target.Tables :
        \E c, d \in ColumnNamesOf(source.Tables[n]) :
            /\ ColumnNamed(source.Tables[n], c).Position = 1
            /\ ColumnNamed(source.Tables[n], d).Position = 2
            /\ AddColumnEntries(n, c) # {}
            /\ AddColumnEntries(n, d) # {}

\* The index names of a table, and the columns of one of its indexes in
\* descriptor order.
IndexNamesOf(tbl) == {tbl.Indexes[i].Name : i \in DOMAIN tbl.Indexes}

IndexColumnsOf(tbl, x) ==
    LET named(e) == e.Name = x
        entries == SelectSeq(tbl.Indexes, named)
    IN  [i \in DOMAIN entries |-> entries[i].Column]

\* The entries of the list for the table with this detail.
EntriesWith(n, detail) ==
    {results[i] : i \in {j \in DOMAIN results :
                            results[j].TableName = n /\ results[j].Detail = detail}}

\* (`c1`, `c2`); at the end of a statement.
ListsColumns(sql, cols) ==
    HasSuffix(sql, <<" (">> \o Join([i \in DOMAIN cols |-> <<BQ>> \o cols[i] \o <<BQ>>], <<", ">>)
                        \o <<");">>)

\* C25 - Index-level diff: for a table of both snapshots and an index name
\* other than PRIMARY there is one "Add index" entry, listing the columns in
\* descriptor order, when the name is only in the source, one "Recreate
\* index" entry (drop and add in one statement) when it is in both with
\* different ordered column lists, one "Drop index" entry when it is only in
\* the target, and none when the lists are equal; PRIMARY gives no entry.
IndexDiffExact ==
    pc = "compared" =>
        \A n \in DOMAIN source.Tables \cap DOMAIN target.Tables :
            LET s == source.Tables[n]
                t == target.Tables[n]
                inS == IndexNamesOf(s)
                inT == IndexNamesOf(t)
            IN  \A x \in inS \cup inT \cup IndexNames \cup {PRIMARY} :
                    LET adds == EntriesWith(n, <<"Add index: ">> \o x)
                        recreates == EntriesWith(n, <<"Recreate index: ">> \o x)
                        drops == EntriesWith(n, <<"Drop index: ">> \o x)
                        differ == /\ x \in inS \cap inT
                                  /\ IndexColumnsOf(s, x) # IndexColumnsOf(t, x)
                    IN  /\ CountDetail(results, n, <<"Add index: ">> \o x)
                                = IF x # PRIMARY /\ x \in inS \ inT THEN 1 ELSE 0
                        /\ CountDetail(results, n, <<"Recreate index: ">> \o x)
                                = IF x # PRIMARY /\ differ THEN 1 ELSE 0
                        /\ CountDetail(results, n, <<"Drop index: ">> \o x)
                                = IF x # PRIMARY /\ x \in inT \ inS THEN 1 ELSE 0
                        /\ \A e \in adds :
                                /\ HasPrefix(e.SQL, ALTER(n) \o <<" ADD INDEX ", BQ>> \o x)
                                /\ ListsColumns(e.SQL, IndexColumnsOf(s, x))
                        /\ \A e \in recreates :
                                /\ HasPrefix(e.SQL, ALTER(n) \o <<" DROP INDEX ", BQ>> \o x
                                                    \o <<BQ, ", ADD INDEX ", BQ>> \o x)
                                /\ ListsColumns(e.SQL, IndexColumnsOf(s, x))
                        /\ \A e \in drops :
                                e.SQL = ALTER(n) \o <<" DROP INDEX ", BQ>> \o x \o <<BQ, ";">>

\* An index recreated, an index dropped, and the primary key of the source
\* alone without an entry.
IndexDiffExactWitness ==
    /\ pc = "compared"
    /\ \E n \in DOMAIN source.Tables \cap DOMAIN target.Tables :
        /\ CountDetailPrefix(results, n, <<"Recreate index: ">>) = 1
        /\ CountDetailPrefix(results, n, <<"Drop index: ">>) = 1
        /\ PRIMARY \in IndexNamesOf(source.Tables[n]) \ IndexNamesOf(target.Tables[n])
        /\ \A i \in DOMAIN results : results[i].Detail # <<"Add index: ">> \o PRIMARY

\* The non-unique flag of an index of a table.
NonUniqueOf(tbl, x) ==
    {tbl.Indexes[i].NonUnique : i \in {j \in DOMAIN tbl.Indexes : tbl.Indexes[j].Name = x}}

\* C29 - Index uniqueness is part of the schema diff: CompareSchemas returns
\* the empty list only if every index other than PRIMARY that both snapshots
\* of a table hold has the same ordered column list and the same non-unique
\* flag on both sides.
IndexUniquenessCompared ==
    (pc = "compared" /\ results = <<>>) =>
        \A n \in DOMAIN source.Tables \cap DOMAIN target.Tables :
            \A x \in (IndexNamesOf(source.Tables[n]) \cap IndexNamesOf(target.Tables[n]))
                        \ {PRIMARY} :
                /\ IndexColumnsOf(source.Tables[n], x) = IndexColumnsOf(target.Tables[n], x)
                /\ NonUniqueOf(source.Tables[n], x) = NonUniqueOf(target.Tables[n], x)

---------------------------------------------------------------------------
(* Properties of the data comparison                                       *)

\* C2 - Row reconciliation convergence: when every statement CompareTableData
\* returned has been run on the target, for a table with a primary key,
\* CompareTableData returns the empty list.
DataConvergence ==
    (pc = "resynced" /\ syncTypes = SyncTypes) => dataSecond = <<>>

\* C5 - Data idempotence: when the keyed row sets of the source and of the
\* target are identical, CompareTableData returns no entry.
DataIdempotence ==
    (pc = "diffed" /\ fetched.source = fetched.target) => dataDiffs = <<>>

\* Two identical keyed row sets of two rows, one with a NULL, compared.
DataIdempotenceWitness ==
    /\ pc = "diffed"
    /\ fetched.source = fetched.target
    /\ Cardinality(DOMAIN fetched.source) = 2
    /\ \E k \in DOMAIN fetched.source : fetched.source[k][ColV].kind = "nil"
    /\ dataDiffs = <<>>

\* The composite key an entry is about.
EntryKey(d) ==
    pkKeyOf(IF d.Type = "delete" THEN d.OldValues ELSE d.NewValues, table.PrimaryKeys)

\* Row inequality as the specification words it: some column's value
\* renders to a different text.
RowsDiffer(a, b) ==
    \/ DOMAIN a # DOMAIN b
    \/ \E c \in DOMAIN a : Sprint(a[c]) # Sprint(b[c])

EntriesOf(type, k) ==
    {i \in DOMAIN dataDiffs : dataDiffs[i].Type = type /\ EntryKey(dataDiffs[i]) = k}

\* C6 - Classification is exact: for every composite key there is one
\* insert (new the source row, no old) iff the key is in the source only,
\* one update (old the target row, new the source row) iff it is in both
\* and the rows are not equal, one delete (old the target row, no new) iff
\* it is in the target only, and there is no other entry.
DataClassificationExact ==
    pc = "diffed" =>
        LET S == fetched.source
            T == fetched.target
        IN  /\ \A i \in DOMAIN dataDiffs :
                /\ dataDiffs[i].Type \in SyncTypes
                /\ EntryKey(dataDiffs[i]) \in DOMAIN S \cup DOMAIN T
            /\ \A k \in DOMAIN S \cup DOMAIN T :
                /\ Cardinality(EntriesOf("insert", k))
                        = IF k \in DOMAIN S \ DOMAIN T THEN 1 ELSE 0
                /\ Cardinality(EntriesOf("update", k))
                        = IF k \in DOMAIN S \cap DOMAIN T /\ RowsDiffer(S[k], T[k])
                          THEN 1 ELSE 0
                /\ Cardinality(EntriesOf("delete", k))
                        = IF k \in DOMAIN T \ DOMAIN S THEN 1 ELSE 0
                /\ \A i \in EntriesOf("insert", k) :
                        dataDiffs[i].NewValues = S[k] /\ dataDiffs[i].OldValues = NilRow
                /\ \A i \in EntriesOf("update", k) :
                        dataDiffs[i].NewValues = S[k] /\ dataDiffs[i].OldValues = T[k]
                /\ \A i \in EntriesOf("delete", k) :
                        dataDiffs[i].OldValues = T[k] /\ dataDiffs[i].NewValues = NilRow

\* One insert, one update and one delete in one list.
DataClassificationWitness ==
    /\ pc = "diffed"
    /\ Len(dataDiffs) = 3
    /\ \E k1, k2, k3 \in DOMAIN fetched.source \cup DOMAIN fetched.target :
        /\ Cardinality(EntriesOf("insert", k1)) = 1
        /\ Cardinality(EntriesOf("update", k2)) = 1
        /\ Cardinality(EntriesOf("delete", k3)) = 1

FetchSteps == {GetSourceData, GetTargetData, CompareRows}

\* C7 - A table without a primary key is rejected: CompareTableData returns
\* an error and no list, it fetches and compares no row, and when the
\* connections and the primary-key lookup succeed the error is the "no
\* primary key" error.
NoKeyRejected ==
    (pc # "ready" /\ table.PrimaryKeys = <<>>) =>
        /\ dataErr # NoError
        /\ dataDiffs = <<>>
        /\ \A i \in DOMAIN calls : calls[i] \notin FetchSteps
        /\ calls = <<ConnectSource, ConnectTarget, GetPrimaryKeys>>
                /\ dataErr # "getPrimaryKeys failed"
            => dataErr = ErrNoPrimaryKey

\* A table without primary key that holds rows on both sides, rejected
\* after the primary-key lookup.
NoKeyRejectedWitness ==
    /\ pc = "diffFailed"
    /\ table.PrimaryKeys = <<>>
    /\ sourceRows # {}
    /\ targetRows # {}
    /\ dataErr = ErrNoPrimaryKey
    /\ calls = <<ConnectSource, ConnectTarget, GetPrimaryKeys>>

---------------------------------------------------------------------------
(* Properties of the Statement Generator                                   *)

\* The text of a literal in quotes, or nothing when the text is no such
\* literal: the wrapping quotes are stripped and each doubled quote between
\* them stands for one quote.
RECURSIVE Unquote(_)
Unquote(rest) ==
    IF rest = <<>> THEN <<>>
    ELSE IF Head(rest) = "'"
    THEN IF Len(rest) = 1 THEN << <<>> >>
         ELSE IF rest[2] = "'"
         THEN LET r == Unquote(SubSeq(rest, 3, Len(rest)))
              IN  IF r = <<>> THEN <<>> ELSE << <<"'">> \o r[1] >>
         ELSE <<>>
    ELSE LET r == Unquote(Tail(rest))
         IN  IF r = <<>> THEN <<>> ELSE << <<Head(rest)>> \o r[1] >>

UnquoteLiteral(text) ==
    IF text # <<>> /\ Head(text) = "'" THEN Unquote(Tail(text)) ELSE <<>>

\* C12 - Value escaping round-trips: for a text value v, escapeValue(v) is v
\* with each single quote doubled, wrapped in single quotes, and parsing
\* that literal (stripping the wrapper, un-doubling the quotes) gives v.
EscapeRoundTrip ==
    (pc = "escaped" /\ value.kind = "string") =>
        /\ escaped = <<"'">> \o QuoteText(value.str) \o <<"'">>
        /\ UnquoteLiteral(escaped) = <<value.str>>

\* The text O'O escaped to 'O''O'.
EscapeRoundTripWitness ==
    /\ pc = "escaped"
    /\ value = String(<<"O", "'", "O">>)
    /\ escaped = <<"'", "O", "'", "'", "O", "'">>
    /\ UnquoteLiteral(escaped) = << <<"O", "'", "O">> >>

\* C13 - escapeValue maps by value kind: nil to the keyword NULL, a value of
\* any integer or float type to its bare text, a bool to 1 or 0, and every
\* other value to a literal in single quotes.
EscapeByKind ==
    pc = "escaped" =>
        escaped =
            CASE value.kind = "nil" -> <<"N", "U", "L", "L">>
              [] value.kind \in SignedKinds \cup UnsignedKinds \cup FloatKinds -> Sprint(value)
              [] value.kind = "bool" -> IF value.num = 1 THEN <<"1">> ELSE <<"0">>
              [] OTHER -> <<"'">> \o QuoteText(Sprint(value)) \o <<"'">>

\* The keywords of the default-value classification.
KeywordDefaults ==
    { <<"N", "U", "L", "L">>,
      <<"C", "U", "R", "R", "E", "N", "T", "_", "T", "I", "M", "E", "S", "T", "A", "M", "P">>,
      <<"C", "U", "R", "R", "E", "N", "T", "_", "D", "A", "T", "E">>,
      <<"C", "U", "R", "R", "E", "N", "T", "_", "T", "I", "M", "E">>,
      <<"N", "O", "W", "(", ")">>,
      <<"T", "R", "U", "E">>,
      <<"F", "A", "L", "S", "E">> }

\* A numeric literal: a text that is not empty, of digits and decimal
\* points after an optional leading minus.
NumericLiteral(v) ==
    /\ v # <<>>
    /\ LET body == IF Head(v) = "-" THEN Tail(v) ELSE v
       IN  \A i \in DOMAIN body : body[i] \in Digits \cup {"."}

\* The defaults the classification leaves without quotes.
LeftUnquoted(v) ==
    \/ NumericLiteral(v)
    \/ ToUpper(v) \in KeywordDefaults
    \/ (Len(v) >= 2 /\ v[Len(v) - 1] = "(" /\ v[Len(v)] = ")")
    \/ (v # <<>> /\ v[1] = "(")

WellFormedNumber(v) ==
    /\ v # <<>>
    /\ LET body == IF Head(v) = "-" THEN Tail(v) ELSE v
       IN  /\ \A i \in DOMAIN body : body[i] \in Digits \cup {"."}
           /\ \E i \in DOMAIN body : body[i] \in Digits
           /\ Cardinality({i \in DOMAIN body : body[i] = "."}) <= 1

\* A default the classification leaves unquoted as a keyword, a function
\* call or an expression in parentheses.
KeywordLike(v) ==
    \/ ToUpper(v) \in KeywordDefaults
    \/ (Len(v) >= 2 /\ v[Len(v) - 1] = "(" /\ v[Len(v)] = ")")
    \/ (v # <<>> /\ v[1] = "(")

\* C27 - Numeric-default predicate: a present default that is no keyword,
\* function call or parenthesised expression is written without quotes only
\* when it is a well-formed numeric literal; "-", "." and "-." are written
\* as quoted string literals.
NumericDefaultWellFormed ==
    (pc = "built" /\ columnInfo.Default # NilString /\ ~KeywordLike(columnInfo.Default[1]))
        => ((\E i \in DOMAIN columnDef : columnDef[i] = " DEFAULT ")
                <=> WellFormedNumber(columnInfo.Default[1]))

---------------------------------------------------------------------------
(* Properties of the first comparison on connections of any dialect        *)

\* A name in the quoting of the target's dialect tag.
TargetQuoted(name) ==
    CASE dialect \in {"postgresql", "sqlite"} -> <<"\"">> \o name \o <<"\"">>
      [] dialect = "sqlserver" -> <<"[">> \o name \o <<"]">>
      [] OTHER -> <<BQ>> \o name \o <<BQ>>

\* C15 - Dialect quoting: in every statement of the schema comparison and
\* of the data comparison the table name, and the column or index name that
\* follows it, is wrapped in the quoting of the target's dialect tag.
DialectQuoting ==
    /\ pc = "compared" =>
        \A i \in DOMAIN results :
            LET T == TargetQuoted(results[i].TableName)
            IN  /\ results[i].Type = "removed"
                    => results[i].SQL = <<"DROP TABLE ">> \o T \o <<";">>
                /\ results[i].Type = "modified"
                    => \E verb \in {" ADD COLUMN ", " DROP COLUMN ", " MODIFY COLUMN ",
                                    " ADD INDEX ", " DROP INDEX "},
                          n \in ColNames \cup IndexNames :
                            HasPrefix(results[i].SQL,
                                      <<"ALTER TABLE ">> \o T \o <<verb>> \o TargetQuoted(n))
    /\ pc = "diffed" =>
        \A i \in DOMAIN dataDiffs :
            LET T == TargetQuoted(dataDiffs[i].TableName)
                head == CASE dataDiffs[i].Type = "insert" -> <<"INSERT INTO ">>
                          [] dataDiffs[i].Type = "update" -> <<"UPDATE ">>
                          [] OTHER -> <<"DELETE FROM ">>
            IN  HasPrefix(dataDiffs[i].SQL, head \o T)

\* C16 - No partial result on failure: when CompareTableData or
\* App.CompareSchemas returns an error, the list it returns is empty.
NoPartialResult ==
    /\ dataErr # NoError => dataDiffs = <<>>
    /\ schemaErr # NoError => results = <<>>

\* CompareTableData failed at the fetch of the target's rows, after it had
\* fetched rows of the source that the target lacks.
NoPartialResultWitness ==
    /\ pc = "diffFailed"
    /\ dataErr = "failed to get target data"
    /\ calls = <<ConnectSource, ConnectTarget, GetPrimaryKeys, GetColumns, GetSourceData,
                 GetTargetData>>
    /\ sourceRows # {}
    /\ targetRows = {}
    /\ dataDiffs = <<>>

---------------------------------------------------------------------------
(* Properties of the summaries                                             *)

\* C17 - No error is swallowed: when an adapter step of GetDataSyncSummary
\* (those of its CompareTableData included) or of GetTablesForSync fails,
\* the operation returns an error and no value.
NoErrorSwallowed ==
    (pc \in {"summarized", "listed"} /\ infoFailing # NoFailure) =>
        /\ infoErr # NoError
        /\ info = NilInfo

---------------------------------------------------------------------------
(* Properties of Execute Sync                                              *)

\* The statements of the entries of the first list whose type is ticked, in
\* list order.
TickedStatements ==
    LET Ticked(d) == d.Type \in syncTypes
        chosen == SelectSeq(dataDiffs, Ticked)
    IN  [i \in DOMAIN chosen |-> chosen[i].SQL]

\* C18 - Selective sync: Execute Sync gives ExecuteSQL, in one call, the
\* statements of the entries whose type is ticked, in list order, and no
\* other statement; when no entry's type is ticked it calls nothing.
SelectiveSync ==
    /\ pc \in {"ready", "diffed", "diffFailed", "nothingToSync"} => executed = <<>>
    /\ pc = "nothingToSync" => TickedStatements = <<>>
    /\ pc \in {"resynced", "syncFailed", "diffedAgain"} =>
        /\ TickedStatements # <<>>
        /\ executed = << Join(TickedStatements, <<"\n">>) >>

\* A list of an insert, an update and a delete, of which the insert and the
\* delete were ticked and executed.
SelectiveSyncWitness ==
    /\ pc = "resynced"
    /\ syncTypes = {"insert", "delete"}
    /\ \A t \in SyncTypes : \E i \in DOMAIN dataDiffs : dataDiffs[i].Type = t
    /\ Len(TickedStatements) = 2
    /\ executed = << Join(TickedStatements, <<"\n">>) >>
\* Two scanned rows render to the same text in every primary-key column.
SameKeyTexts(r1, r2, primaryKeys) ==
    \A i \in DOMAIN primaryKeys :
        Sprint(ValueAt(r1, primaryKeys[i])) = Sprint(ValueAt(r2, primaryKeys[i]))

\* C20 - Composite keying identifies rows exactly by their primary-key text:
\* two rows, of one side or of both, get the same composite key if and only
\* if their values render to the same text in every primary-key column in
\* order, also when a key component contains the delimiter character.
KeyExact ==
    pc = "diffed" =>
        LET scanned == {scanRow(r, table.Columns) : r \in sourceRows \cup targetRows}
        IN  \A r1, r2 \in scanned :
                pkKeyOf(r1, table.PrimaryKeys) = pkKeyOf(r2, table.PrimaryKeys)
                    <=> SameKeyTexts(r1, r2, table.PrimaryKeys)

\* The update entries of the list CompareTableData returned.
UpdateEntries == {dataDiffs[i] : i \in {j \in DOMAIN dataDiffs : dataDiffs[j].Type = "update"}}

\* column = escaped value of the source row.
Assignment(row, col) ==
    quoteIdentifier(dialect, col) \o <<" = ">> \o escapeValue(row[col])

\* C22 - Update statement shape: the statement of every update entry SETs
\* every column of the source row that is not a primary-key column to its
\* escaped source value, each once and no primary-key column, and its WHERE
\* clause is the AND of one equality per primary-key column, in primary-key
\* order, with the source row's value of that column.
UpdateShape ==
    pc = "diffed" =>
        \A e \in UpdateEntries :
            LET pks == table.PrimaryKeys
                rest == DOMAIN e.NewValues \ {pks[i] : i \in DOMAIN pks}
            IN  \E p \in Perms(rest) :
                    e.SQL = <<"UPDATE ">> \o quoteIdentifier(dialect, table.Name) \o <<" SET ">>
                        \o Join([i \in DOMAIN p |-> Assignment(e.NewValues, p[i])], <<", ">>)
                        \o <<" WHERE ">>
                        \o Join([i \in DOMAIN pks |-> Assignment(e.NewValues, pks[i])],
                                <<" AND ">>)
                        \o <<";">>

\* An update of a row of the table keyed by two columns was returned.
UpdateShapeWitness ==
    /\ pc = "diffed"
    /\ table = CompositeKey
    /\ \E e \in UpdateEntries :
            /\ e.NewValues \in {scanRow(r, table.Columns) : r \in sourceRows}
            /\ e.NewValues[ColV] # e.OldValues[ColV]

\* In the list every delete comes after every insert and every update.
DeletesLast(list) ==
    \A i, j \in DOMAIN list :
        (list[i].Type = "delete" /\ list[j].Type \in {"insert", "update"}) => j < i

\* C26 - Data-diff ordering: in every list CompareTableData returns, every
\* delete entry comes after every insert and every update entry.
DataDiffOrdering ==
    DeletesLast(dataDiffs) /\ DeletesLast(dataSecond)

\* A list with an insert, an update and a delete was returned.
DataDiffOrderingWitness ==
    /\ pc = "diffed"
    /\ \A type \in SyncTypes : \E i \in DOMAIN dataDiffs : dataDiffs[i].Type = type
    /\ dataDiffs[Len(dataDiffs)].Type = "delete"

\* Some column is NULL in one of the two rows and not in the other.
NullOnOneSide(a, b) ==
    \E c \in DOMAIN a \cap DOMAIN b : (a[c].kind = "nil") # (b[c].kind = "nil")

\* C28 - NULL is distinct in row comparison: when a source row and the
\* target row of the same key have a column that is NULL on one side and not
\* NULL on the other, whatever its text, an update entry is returned for
\* the key.
NullDistinct ==
    pc = "diffed" =>
        \A k \in DOMAIN fetched.source \cap DOMAIN fetched.target :
            NullOnOneSide(fetched.source[k], fetched.target[k])
                => EntriesOf("update", k) # {}

---------------------------------------------------------------------------
(* Properties of the statement executor                                    *)

\* The entries whose statements Execute Sync gave to ExecuteSQL.
SentEntries == filteredDiffs(dataDiffs, syncTypes)

\* A statement character by character, without its terminating semicolon.
WithoutSemicolon(sql) == SubSeq(Characters(sql), 1, Len(Characters(sql)) - 1)

\* ExecuteSQL connected to a database other than MySQL and split the text.
SplitDone ==
    /\ pc \in {"resynced", "syncFailed"}
    /\ dialect # MySQL
    /\ execErr # ErrConnect

\* C21 - Statement splitting round-trips generated DML: the statements of
\* the entries, joined with new lines and given to splitSQLStatements, come
\* back one per entry, in order, each equal to the original without its
\* terminating semicolon, whatever quotes and semicolons the values hold.
SplitRoundTrip ==
    SplitDone =>
        split = [i \in DOMAIN SentEntries |-> WithoutSemicolon(SentEntries[i].SQL)]

\* The rows of the target when Execute Sync was pressed: the rows the first
\* comparison fetched, texts as the database stores them.
RowsBefore ==
    {[c \in DOMAIN fetched.target[k] |->
        IF fetched.target[k][c].kind = "string"
        THEN Text(fetched.target[k][c].str)
        ELSE fetched.target[k][c]] : k \in DOMAIN fetched.target}

\* The database runs the statements in order, each on the rows the ones
\* before it left, as long as none fails.
RECURSIVE RunInOrder(_, _)
RunInOrder(rows, list) ==
    IF list = <<>> THEN Done(rows)
    ELSE LET r == DatabaseExec(dialect, table, rows, Head(list))
         IN  IF r.ok THEN RunInOrder(r.now, Tail(list)) ELSE r

\* The statements of the split text that are not blank.
NotBlank(e) == TrimSpace(e) # <<>>

\* C30 - Sequential execution stops at the first failure: on a dialect other
\* than MySQL, ExecuteSQL gives db.Exec the split statements that are not
\* blank one at a time in order; when statement k fails it returns the
\* error, statements 1..k-1 have run and stay applied, and no statement
\* after k is run; it returns no error only if every statement succeeded.
StopsAtFirstFailure ==
    SplitDone =>
        LET todo == SelectSeq(split, NotBlank)
            k == Len(ran)
        IN  /\ k <= Len(todo)
            /\ ran = SubSeq(todo, 1, k)
            /\ IF execErr = NoError
               THEN /\ k = Len(todo)
                    /\ RunInOrder(RowsBefore, ran).ok
                    /\ targetRows = RunInOrder(RowsBefore, ran).now
               ELSE /\ k >= 1
                    /\ RunInOrder(RowsBefore, SubSeq(ran, 1, k - 1)).ok
                    /\ targetRows = RunInOrder(RowsBefore, SubSeq(ran, 1, k - 1)).now
                    /\ ~DatabaseExec(dialect, table, targetRows, ran[k]).ok

\* The second statement failed: the first one stays applied.
StopsAtFirstFailureWitness ==
    /\ SplitDone
    /\ execErr = ErrExec
    /\ Len(ran) = 2
    /\ targetRows # RowsBefore

============================================================================
